---- MODULE Spec2Model ----
(***************************************************************************)
(* Label-It: the data access service (src/backend.py) over its SQLite      *)
(* schema.  Every call of the service is a short sequence of database      *)
(* transactions; calls of different sessions (threads) interleave between  *)
(* transactions, never inside one (SQLite serialises writers).             *)
(*                                                                         *)
(* Usernames and passwords are sequences of one-character strings, so that *)
(* str.strip, len, str.replace and str.isalnum are computed.  Titles,      *)
(* label texts, languages and categories are atomic strings.               *)
(*                                                                         *)
(* The pages (src/app.py) run on top of the service: every interaction of  *)
(* a browser session is one run of main over st.session_state and the      *)
(* shared st.cache_data; the upload page asks the IP location services     *)
(* (src/geolocation.py).                                                   *)
(***************************************************************************)
EXTENDS Integers, Sequences, FiniteSets, Bags, TLC

VARIABLES
    users,            \* rows of table users
    images,           \* rows of table images
    labels,           \* rows of table labels
    labelSeq,         \* sqlite_sequence of labels (AUTOINCREMENT high-water mark)
    analytics,        \* rows of table analytics (a bag: ids and timestamps left out)
    user_activities,  \* rows of table user_activities (a bag, likewise)
    foreign_keys,     \* the foreign_keys setting a fresh connection starts with
    faulty,           \* the database file cannot be used now: every statement raises
    files,            \* the paths that exist on disk
    now,              \* datetime.now()
    uuidSeq,          \* number of uuid4 values generated so far
    pc,               \* per session: where its current call stands
    call,             \* per session: the call in progress and its arguments
    last,             \* the call that returned most recently, with its result
    result,           \* the query or export that returned most recently, with its value
    nCalls,           \* calls started so far
    okRegs,           \* history: stored username -> Register calls that returned success
    regArgs,          \* history: <<username, password>> arguments of successful Registers
    okImages,         \* history: user -> AddImage calls that returned an id
    okLabels,         \* history: user -> AddLabel calls that returned true
    returnedIds,      \* history: bag of the ids returned by AddImage
    session,          \* per browser session: st.session_state
    run,              \* per browser session: the script run that waits for a call to return
    shown,            \* per browser session: what its last script run put on the page
    cache,            \* st.cache_data: the entries of the three cached functions
    clock,            \* time.time(), in seconds
    lookup            \* per browser session: its latest get_ip_location

vars == <<users, images, labels, labelSeq, analytics, user_activities, foreign_keys,
          faulty, files, now, uuidSeq, pc, call, last, result, nCalls, okRegs, regArgs,
          okImages, okLabels, returnedIds, session, run, shown, cache, clock, lookup>>

db == <<users, images, labels, labelSeq, analytics, user_activities>>
env == <<foreign_keys, faulty, files>>
hist == <<okRegs, regArgs, okImages, okLabels, returnedIds>>
ui == <<session, run, shown, cache, clock, lookup>>

----------------------------------------------------------------------------
(* Bounds of the model *)

MaxCalls == 3        \* calls started in one behaviour
MaxUserCalls == 2    \* calls started in one behaviour of SpecUsers
MaxQueryCalls == 3   \* calls started in one behaviour of SpecQueries
MaxStatsCalls == 3   \* calls started in one behaviour of SpecStats
MaxExportCalls == 3  \* calls started in one behaviour of SpecExport
MaxFaultCalls == 2   \* calls started in one behaviour of SpecFaults
MaxArchiveCalls == 2 \* calls started in one behaviour of SpecArchive
MaxAggregateCalls == 3  \* calls started in one behaviour of SpecAggregates
MaxSessionRuns == 5  \* runs of main in one behaviour of SpecSession
MaxFeedRuns == 5     \* runs of main in one behaviour of SpecFeed
MaxCacheRuns == 5    \* runs of main in one behaviour of SpecCache
MaxUploadRuns == 5   \* runs of main in one behaviour of SpecUpload
MaxClock == 600      \* largest value of time.time()
MaxTime == 2         \* largest value of the clock

Procs == {1, 2}      \* concurrent sessions

----------------------------------------------------------------------------
(* Program constants *)

MinUsernameLen == 3
MinPasswordLen == 3
MinStoredAge == 12
ImagePoints == 10
LabelPoints == 5
Week == 7              \* timedelta(days=7), in units of the clock
TimelineDays == 30     \* get_activity_timeline(days=30)
TitleLimit == 50       \* title[:50]

----------------------------------------------------------------------------
(* Argument values *)

None == "<None>"          \* Python None / SQL NULL
IntText == "<int>"        \* a label text that is a Python int, not a str
NoTime == 0               \* a NULL timestamp; the clock starts at 1

U_empty == <<>>
U_spaces == <<" ", " ">>
U_ab == <<"a", "b">>
U_abc == <<"a", "b", "c">>
U_sp_abc == <<" ", "a", "b", "c">>
U_a_dash == <<"a", "_", "-">>
U_underscores == <<"_", "_", "_">>
U_bang == <<"a", "!", "c">>
U_ghost == <<"z", "z", "z", "!">>    \* can never be registered

P_empty == <<>>
P_pq == <<"p", "q">>
P_pqr == <<"p", "q", "r">>
P_pqr_sp == <<"p", "q", "r", " ">>
P_xyz == <<"x", "y", "z">>

\* arguments of create_user
UsernameInputs == {U_empty, U_spaces, U_ab, U_sp_abc, U_a_dash, U_underscores, U_bang}
PasswordInputs == {P_empty, P_pq, P_pqr_sp, P_xyz}
\* the age keyword: left out, passed as None (the form's blank field), or an int
AgeAbsent == [kind |-> "absent", value |-> 0]
AgeInputs == {AgeAbsent, [kind |-> "none", value |-> 0],
              [kind |-> "int", value |-> 12], [kind |-> "int", value |-> 13]}
\* the age field of the registration form, filled in
FormAge13 == [kind |-> "int", value |-> 13]
\* arguments of authenticate_user
LoginNameInputs == {U_abc, U_sp_abc, U_a_dash}
LoginPasswordInputs == {P_pqr, P_pqr_sp, P_xyz}
\* arguments of add_image and add_label
ActorInputs == {U_abc, U_ghost}
TitleInputs == {"Cat", None}
DescriptionInputs == {None}
CategoryInputs == {"Animals"}
PathInputs == {"uploads/1.jpg"}
TextInputs == {"cat", None, IntText}
LanguageInputs == {"en", "hi"}
\* arguments of the calls that fill the database for the queries
QueryUsers == {U_sp_abc, U_a_dash}
QueryActors == {U_abc, U_a_dash}
QueryUploads == {[title |-> "Cat", description |-> None, category |-> "Animals"],
                 [title |-> "Dog", description |-> "my cat", category |-> "Food"],
                 [title |-> "Dal", description |-> None, category |-> "Food"]}
QueryLabels == {[text |-> "cat", language |-> "en"],
                [text |-> "billi", language |-> "hi"]}
\* arguments of the calls that fill the database for the exports
LongTitle == "ttttttttttttttttttttttttttttttttttttttttttttttttttt"    \* 51 characters
ExportTitles == {"Cat", LongTitle}
ExportPaths == {"uploads/1.jpg", "uploads/.2"}
\* the files of two uploads of the same kind
ArchivePaths == {"uploads/1.jpg", "uploads/3.jpg"}
\* arguments of get_images and get_user_stats
CategoryFilters == {None, "Animals"}
LanguageFilters == {None, "hi"}
SearchFilters == {None, "at"}
DefaultLimit == 50
LimitInputs == {1, DefaultLimit}

\* Image ids: the k-th uuid4 value is k.  A caller can pass AddLabel any id
\* generated so far, or a string that is no generated id (GhostImage); it
\* cannot pass an id that uuid4 will only produce later.
GhostImage == 0
ImageArgs == {GhostImage} \cup (1..uuidSeq)


\* no query has returned yet
NoResult == [op |-> "none"]
\* an export that returned None
Null == [null |-> TRUE]

\* the location keywords of add_image, none of them passed
NoKwargs == [latitude |-> None, longitude |-> None, city |-> None, country |-> None,
             location_method |-> None]

IdleCall == [op |-> "none", username |-> <<>>, password |-> <<>>,
             age |-> AgeAbsent, image |-> GhostImage,
             title |-> None, description |-> None, category |-> None,
             image_path |-> None, kwargs |-> NoKwargs, text |-> None, language |-> None]

----------------------------------------------------------------------------
(* Python string functions *)

IsSpace(c) == c = " "
IsAlnumChar(c) == c \in {"a", "b", "c", "p", "q", "r", "x", "y", "z"}

RECURSIVE LStrip(_)
LStrip(s) == IF s = <<>> THEN s
             ELSE IF IsSpace(Head(s)) THEN LStrip(Tail(s)) ELSE s

RECURSIVE RStrip(_)
RStrip(s) == IF s = <<>> THEN s
             ELSE IF IsSpace(s[Len(s)]) THEN RStrip(SubSeq(s, 1, Len(s) - 1)) ELSE s

\* str.strip()
Strip(s) == RStrip(LStrip(s))

\* str.replace(c, '')
RECURSIVE Replace(_, _)
Replace(s, c) == IF s = <<>> THEN s
                 ELSE IF Head(s) = c THEN Replace(Tail(s), c)
                 ELSE <<Head(s)>> \o Replace(Tail(s), c)

\* str.isalnum(): false for the empty string
IsAlnum(s) == s # <<>> /\ \A i \in 1..Len(s) : IsAlnumChar(s[i])

\* every name a row can carry: stripped registration names and actor arguments
Names == {Strip(u) : u \in UsernameInputs \cup LoginNameInputs} \cup ActorInputs

----------------------------------------------------------------------------
(* create_user: validation and argument evaluation *)

MsgRequired == "Username and password are required"
MsgUserLen == "Username must be at least 3 characters"
MsgPassLen == "Password must be at least 3 characters"
MsgUserChars == "Username can only contain letters, numbers, underscore, and hyphen"
MsgExists == "Username already exists"
MsgError == "Error creating user: TypeError"
MsgStorage == "Error creating user: OperationalError"
MsgCreated == "User created successfully"

\* (variant) the username length check left out
ValidateUser_NoLength(username, password) ==
    IF username = <<>> \/ password = <<>> THEN MsgRequired
    ELSE IF Len(password) < MinPasswordLen THEN MsgPassLen
    ELSE IF ~IsAlnum(Replace(Replace(username, "_"), "-")) THEN MsgUserChars
    ELSE "ok"

\* (variant) the character check left out
ValidateUser_NoChars(username, password) ==
    IF username = <<>> \/ password = <<>> THEN MsgRequired
    ELSE IF Len(username) < MinUsernameLen THEN MsgUserLen
    ELSE IF Len(password) < MinPasswordLen THEN MsgPassLen
    ELSE "ok"

\* the checks of create_user on the stripped arguments: "ok" or the reason
ValidateUser(username, password) ==
    IF username = <<>> \/ password = <<>> THEN MsgRequired
    ELSE IF Len(username) < MinUsernameLen THEN MsgUserLen
    ELSE IF Len(password) < MinPasswordLen THEN MsgPassLen
    ELSE IF ~IsAlnum(Replace(Replace(username, "_"), "-")) THEN MsgUserChars
    ELSE "ok"

\* kwargs.get('age', 0) > 12 raises TypeError when age=None was passed
AgeRaises(age) == age.kind = "none"

\* kwargs.get('age') if kwargs.get('age', 0) > 12 else None
StoredAge(age) ==
    IF age.kind = "int" /\ age.value > MinStoredAge
    THEN [null |-> FALSE, value |-> age.value]
    ELSE [null |-> TRUE, value |-> 0]

\* (variant) no UNIQUE constraint on username
UsernameTaken_Never(rows, username) == FALSE

\* UNIQUE(username)
UsernameTaken(rows, username) == \E u \in rows : u.username = username

----------------------------------------------------------------------------
(* Schema: constraints and row constructors *)

UserExists(rows, username) == \E u \in rows : u.username = username
ImageExists(rows, id) == \E i \in rows : i.id = id

\* users: INSERT of create_user; is_active DEFAULT TRUE, last_login NULL
\* (preferred_language, full_name, email and created_at are left out)
NewUserRow(username, password, age) ==
    [username |-> username, password |-> password, age |-> StoredAge(age),
     last_login |-> NoTime, is_active |-> TRUE]

\* (variant) the row starts with label_count 1
NewImageRow_CountOne(id, title, description, category, image_path, uploaded_by, kwargs, t) ==
    [id |-> id, title |-> title, description |-> description, category |-> category,
     image_path |-> image_path, uploaded_by |-> uploaded_by,
     latitude |-> kwargs.latitude, longitude |-> kwargs.longitude, city |-> kwargs.city,
     country |-> kwargs.country, location_method |-> kwargs.location_method,
     uploaded_at |-> t, label_count |-> 1]

\* images: INSERT of add_image; label_count DEFAULT 0
\* (the file metadata columns are left out)
NewImageRow(id, title, description, category, image_path, uploaded_by, kwargs, t) ==
    [id |-> id, title |-> title, description |-> description, category |-> category,
     image_path |-> image_path, uploaded_by |-> uploaded_by,
     latitude |-> kwargs.latitude, longitude |-> kwargs.longitude, city |-> kwargs.city,
     country |-> kwargs.country, location_method |-> kwargs.location_method,
     uploaded_at |-> t, label_count |-> 0]

\* images: PRIMARY KEY, NOT NULL, and the foreign key when the connection enforces it
ImageInsertFails(imgs, usrs, fk, row) ==
    \/ ImageExists(imgs, row.id)
    \/ row.title = None
    \/ row.category = None
    \/ row.image_path = None
    \/ fk /\ ~UserExists(usrs, row.uploaded_by)

\* labels: NOT NULL, and the foreign keys when the connection enforces them
LabelInsertFails(imgs, usrs, fk, row) ==
    \/ row.text = None
    \/ row.language = None
    \/ fk /\ ~ImageExists(imgs, row.image_id)
    \/ fk /\ ~UserExists(usrs, row.added_by)

\* UNIQUE(image_id, text, language)
SameKey(a, b) == a.image_id = b.image_id /\ a.text = b.text /\ a.language = b.language

\* (variant) INSERT OR IGNORE: a row in conflict keeps the new one out
InsertOrReplace_Ignore(rows, row) ==
    IF \E l \in rows : SameKey(l, row) THEN rows ELSE rows \cup {row}

\* (variant) an upsert that updates the row in conflict and keeps its contributor
InsertOrReplace_KeepContributor(rows, row) ==
    IF \E l \in rows : SameKey(l, row)
    THEN {IF SameKey(l, row) THEN [row EXCEPT !.added_by = l.added_by] ELSE l : l \in rows}
    ELSE rows \cup {row}

\* INSERT OR REPLACE INTO labels: rows in conflict are deleted, then the row is inserted
InsertOrReplace(rows, row) == {l \in rows : ~SameKey(l, row)} \cup {row}

\* SELECT COUNT(*) FROM labels WHERE image_id = ?
CountLabels(rows, id) == Cardinality({l \in rows : l.image_id = id})

\* (variant) label_count = label_count + 1 instead of the recount
SetLabelCount_Increment(imgs, lbls, id) ==
    {IF i.id = id THEN [i EXCEPT !.label_count = @ + 1] ELSE i : i \in imgs}

\* (variant) the table is rewritten with the recounted row only
SetLabelCount_OnlyThatRow(imgs, lbls, id) ==
    {[i EXCEPT !.label_count = CountLabels(lbls, id)] : i \in {x \in imgs : x.id = id}}

\* UPDATE images SET label_count = (SELECT COUNT(*) ...) WHERE id = ?
SetLabelCount(imgs, lbls, id) ==
    {IF i.id = id THEN [i EXCEPT !.label_count = CountLabels(lbls, id)] ELSE i : i \in imgs}

\* (variant) the password left out of the WHERE clause
MatchUser_AnyPassword(rows, username, password) ==
    {u \in rows : u.username = username /\ u.is_active}

\* SELECT id FROM users WHERE username = ? AND password = ? AND is_active = TRUE
MatchUser(rows, username, password) ==
    {u \in rows : u.username = username /\ u.password = password /\ u.is_active}

\* UPDATE users SET last_login = ? WHERE username = ?
SetLastLogin(rows, username, t) ==
    {IF u.username = username THEN [u EXCEPT !.last_login = t] ELSE u : u \in rows}

\* INSERT INTO analytics (log_event); an error is logged and swallowed
LogEvent(log, failed, event_type, user_id) ==
    IF failed THEN log
    ELSE log (+) SetToBag({[event_type |-> event_type, user_id |-> user_id]})

\* (variant) the points argument is dropped and the default of 0 is stored
RecordActivity_NoPoints(acts, usrs, fk, failed, user_id, activity_type, points) ==
    IF failed \/ (fk /\ ~UserExists(usrs, user_id)) THEN acts
    ELSE acts (+) SetToBag({[user_id |-> user_id, activity_type |-> activity_type,
                             points_earned |-> 0]})

\* INSERT INTO user_activities (_record_user_activity); an error (a foreign key
\* error too) is logged and swallowed
RecordActivity(acts, usrs, fk, failed, user_id, activity_type, points) ==
    IF failed \/ (fk /\ ~UserExists(usrs, user_id)) THEN acts
    ELSE acts (+) SetToBag({[user_id |-> user_id, activity_type |-> activity_type,
                                 points_earned |-> points]})

----------------------------------------------------------------------------
(* Queries *)

\* get_statistics: SELECT COUNT(*) FROM images
TotalImages(imgs) == Cardinality(imgs)

\* get_user_stats: SELECT COALESCE(SUM(points_earned), 0) ... WHERE user_id = ?
RECURSIVE SumPoints(_, _)
SumPoints(acts, rows) ==
    IF rows = {} THEN 0
    ELSE LET r == CHOOSE x \in rows : TRUE
         IN  CopiesIn(r, acts) * r.points_earned + SumPoints(acts, rows \ {r})

TotalPoints(acts, user_id) ==
    SumPoints(acts, {r \in BagToSet(acts) : r.user_id = user_id})

\* (variant) HAVING total_points >= ... : equal totals count as ahead
UserRank_AtLeast(acts, username) ==
    1 + Cardinality({n \in {r.user_id : r \in BagToSet(acts)} :
                        TotalPoints(acts, n) >= TotalPoints(acts, username)})

\* get_user_stats: SELECT COUNT(*) + 1 FROM (SELECT user_id, SUM(points_earned)
\* ... GROUP BY user_id HAVING total_points > (SELECT COALESCE(SUM(...), 0) ...))
UserRank(acts, username) ==
    1 + Cardinality({n \in {r.user_id : r \in BagToSet(acts)} :
                        TotalPoints(acts, n) > TotalPoints(acts, username)})

\* get_user_stats: the mapping it returns
UserStats(imgs, lbls, acts, username) ==
    [images_uploaded |-> Cardinality({i \in imgs : i.uploaded_by = username}),
     labels_added |-> Cardinality({l \in lbls : l.added_by = username}),
     languages_contributed |-> Cardinality({l.language : l \in {x \in lbls : x.added_by = username}}),
     categories_contributed |-> Cardinality({i.category : i \in {x \in imgs : x.uploaded_by = username}}),
     total_points |-> TotalPoints(acts, username),
     user_rank |-> UserRank(acts, username)]

----------------------------------------------------------------------------
(* SQL: ORDER BY, LIKE, the join of get_images *)

\* the orders in which ORDER BY key DESC can return the rows (key maps each
\* row to the value of the column): rows of equal key come in an order SQL
\* leaves open
OrderByDesc(rows, key) ==
    {s \in [1..Cardinality(rows) -> rows] :
        /\ \A i, j \in 1..Cardinality(rows) : i # j => s[i] # s[j]
        /\ \A i, j \in 1..Cardinality(rows) : i < j => key[s[i]] >= key[s[j]]}

\* the characters of the strings of the model
Chars(s) ==
    CASE s = "Cat" -> <<"C", "a", "t">>
      [] s = "Dog" -> <<"D", "o", "g">>
      [] s = "Dal" -> <<"D", "a", "l">>
      [] s = "my cat" -> <<"m", "y", " ", "c", "a", "t">>
      [] s = "cat" -> <<"c", "a", "t">>
      [] s = "dog" -> <<"d", "o", "g">>
      [] s = "billi" -> <<"b", "i", "l", "l", "i">>
      [] s = "at" -> <<"a", "t">>
      [] s = "en" -> <<"e", "n">>
      [] s = "hi" -> <<"h", "i">>
      [] s = "Animals" -> <<"A", "n", "i", "m", "a", "l", "s">>
      [] s = "Food" -> <<"F", "o", "o", "d">>
      [] s = IntText -> <<"7">>
      [] s = LongTitle -> [k \in 1..51 |-> "t"]
      [] s = "uploads/1.jpg" -> <<"u", "p", "l", "o", "a", "d", "s", "/", "1", ".", "j", "p", "g">>
      [] s = "uploads/.2" -> <<"u", "p", "l", "o", "a", "d", "s", "/", ".", "2">>
      [] s = "uploads/3.jpg" -> <<"u", "p", "l", "o", "a", "d", "s", "/", "3", ".", "j", "p", "g">>
      [] OTHER -> <<>>

\* LIKE folds the case of ASCII letters
Lower(c) ==
    CASE c = "A" -> "a" [] c = "C" -> "c" [] c = "D" -> "d" [] c = "F" -> "f"
      [] OTHER -> c

\* x LIKE '%' || search || '%' for a search text without wildcards; NULL LIKE
\* ... is not true
Like(x, search) ==
    /\ x # None
    /\ LET t == Chars(x)
           q == Chars(search)
       IN  \E k \in 0..(Len(t) - Len(q)) :
                \A i \in 1..Len(q) : Lower(t[k + i]) = Lower(q[i])

\* Python truth of an optional string argument: None and '' are false
Truthy(x) == x \notin {None, ""}

\* the label side of a joined row of an image without labels
NullLabel == [id |-> 0, image_id |-> 0, text |-> None, language |-> None,
              added_by |-> <<>>, added_at |-> NoTime]

\* FROM images i LEFT JOIN labels l ON i.id = l.image_id
LeftJoin(imgs, lbls) ==
    {r \in [i : imgs, l : lbls \cup {NullLabel}] :
        IF r.l = NullLabel THEN ~\E l \in lbls : l.image_id = r.i.id
        ELSE r.l.image_id = r.i.id}

\* (variant) the language filter asks for an image without a label in that language
Where_OtherLanguage(r, category, language, search) ==
    /\ Truthy(category) => r.i.category = category
    /\ Truthy(language) => r.l.language # language
    /\ Truthy(search) =>
            Like(r.i.title, search) \/ Like(r.i.description, search) \/ Like(r.l.text, search)

\* WHERE 1=1 [AND i.category = ?] [AND l.language = ?]
\*   [AND (i.title LIKE ? OR i.description LIKE ? OR l.text LIKE ?)]
Where(r, category, language, search) ==
    /\ Truthy(category) => r.i.category = category
    /\ Truthy(language) => r.l.language = language
    /\ Truthy(search) =>
            Like(r.i.title, search) \/ Like(r.i.description, search) \/ Like(r.l.text, search)

\* GROUP BY i.id with COUNT(l.id) and GROUP_CONCAT(DISTINCT l.language): one
\* row per image that has a joined row left, computed over the rows left
GroupByImage(joined) ==
    {[image |-> i,
      total_labels |-> Cardinality({r.l : r \in {x \in joined : x.i = i /\ x.l # NullLabel}}),
      languages |-> {r.l.language : r \in {x \in joined : x.i = i /\ x.l # NullLabel}}]
        : i \in {r.i : r \in joined}}

\* LIMIT n: the first n rows; a negative n is no limit
Limit(rows, n) ==
    IF n < 0 \/ n >= Len(rows) THEN rows ELSE SubSeq(rows, 1, n)

\* the values get_images can return
SelectImages(imgs, lbls, category, language, search, limit) ==
    LET joined == {r \in LeftJoin(imgs, lbls) : Where(r, category, language, search)}
        grouped == GroupByImage(joined)
    IN  {Limit(rows, limit) :
            rows \in OrderByDesc(grouped, [r \in grouped |-> r.image.uploaded_at])}

\* the values get_image_labels can return
SelectLabels(lbls, image_id) ==
    LET rows == {l \in lbls : l.image_id = image_id}
    IN  OrderByDesc(rows, [l \in rows |-> l.added_at])

----------------------------------------------------------------------------
(* Statistics *)

RECURSIVE SumLabelCounts(_)
SumLabelCounts(imgs) ==
    IF imgs = {} THEN 0
    ELSE LET i == CHOOSE x \in imgs : TRUE
         IN  i.label_count + SumLabelCounts(imgs \ {i})

\* round(AVG(label_count), 2) over the images with label_count > 0, in
\* hundredths; 0 when there is none
AvgLabels(imgs) ==
    LET labelled == {i \in imgs : i.label_count > 0}
        n == Cardinality(labelled)
    IN  IF n = 0 THEN 0
        ELSE (200 * SumLabelCounts(labelled) + n) \div (2 * n)

\* get_statistics: the mapping it returns at time t
Statistics(usrs, imgs, lbls, t) ==
    [total_images |-> TotalImages(imgs),
     total_labels |-> Cardinality(lbls),
     total_users |-> Cardinality({u \in usrs : u.is_active}),
     languages_used |-> Cardinality({l.language : l \in lbls}),
     avg_labels_per_image |-> AvgLabels(imgs),
     recent_images |-> Cardinality({i \in imgs : i.uploaded_at > t - Week}),
     recent_labels |-> Cardinality({l \in lbls : l.added_at > t - Week})]

\* get_category_statistics: SELECT category, COUNT(*) ... GROUP BY category
CategoryStatistics(imgs) ==
    [c \in {i.category : i \in imgs} |-> Cardinality({i \in imgs : i.category = c})]

\* get_language_statistics: SELECT language, COUNT(*) ... GROUP BY language
LanguageStatistics(lbls) ==
    [c \in {l.language : l \in lbls} |-> Cardinality({l \in lbls : l.language = c})]

\* get_activity_timeline: uploads per date in the window, ascending by date
\* (every value of the clock is a date of its own)
ActivityTimeline(imgs, t, days) ==
    LET dates == {i.uploaded_at : i \in {x \in imgs : x.uploaded_at > t - days}}
        row(d) == [date |-> d, uploads |-> Cardinality({i \in imgs : i.uploaded_at = d})]
    IN  CHOOSE s \in [1..Cardinality(dates) -> {row(d) : d \in dates}] :
            \A j, k \in 1..Cardinality(dates) : j < k => s[j].date < s[k].date

----------------------------------------------------------------------------
(* Exports *)

\* the first n characters: s[:n]
Take(s, n) == IF Len(s) <= n THEN s ELSE SubSeq(s, 1, n)

\* the positions of character c in s
Positions(s, c) == {k \in 1..Len(s) : s[k] = c}

Max(S) == CHOOSE x \in S : \A y \in S : y <= x

\* os.path.splitext(path)[1]: from the last dot of the last component on,
\* unless only dots precede it there
SplitExt(path) ==
    LET base == IF Positions(path, "/") = {} THEN 1 ELSE Max(Positions(path, "/")) + 1
        dots == {k \in Positions(path, ".") : k >= base}
    IN  IF dots = {} THEN <<>>
        ELSE LET d == Max(dots)
             IN  IF \E k \in base..(d - 1) : path[k] # "."
                 THEN SubSeq(path, d, Len(path))
                 ELSE <<>>

\* (variant) the title goes into the name in full
ArchivePath_WholeTitle(image) ==
    Chars(image.category) \o <<"/">> \o image.uploaded_by \o <<"/">>
        \o Chars(image.title) \o SplitExt(Chars(image.image_path))

\* f"{category}/{uploaded_by}/{title[:50]}{file_extension}"
ArchivePath(image) ==
    Chars(image.category) \o <<"/">> \o image.uploaded_by \o <<"/">>
        \o Take(Chars(image.title), TitleLimit) \o SplitExt(Chars(image.image_path))

\* (variant) the check of the file is left out
PathExists_Always(disk, path) == TRUE

\* os.path.exists(image['image_path'])
PathExists(disk, path) == path \in disk

\* create_images_zip: the entries written, one zip_file.write per image row
\* with a path whose file exists (a bag: ZipFile keeps entries of equal name)
ZipEntries(imgs, disk) ==
    LET rows == {i \in imgs : i.image_path # None /\ PathExists(disk, i.image_path)}
        entry(i) == [archive_path |-> ArchivePath(i), file |-> i.image_path]
    IN  [e \in {entry(i) : i \in rows} |-> Cardinality({i \in rows : entry(i) = e})]

\* (variant) the Labels sheet is read with a LEFT JOIN
LabelsSheet_LeftJoin(imgs, lbls) ==
    {[label |-> l,
      image_title |-> IF \E i \in imgs : i.id = l.image_id
                      THEN (CHOOSE i \in imgs : i.id = l.image_id).title ELSE None]
        : l \in lbls}

\* SELECT l.*, i.title as image_title FROM labels l JOIN images i ON l.image_id = i.id
LabelsSheet(imgs, lbls) ==
    {[label |-> r.l, image_title |-> r.i.title] :
        r \in {x \in [i : imgs, l : lbls] : x.l.image_id = x.i.id}}

\* export_to_excel: the sheets of the workbook
Workbook(usrs, imgs, lbls, t) ==
    [Users |-> {[username |-> u.username, last_login |-> u.last_login,
                 is_active |-> u.is_active] : u \in usrs},
     Images |-> {[id |-> i.id, title |-> i.title, description |-> i.description,
                  category |-> i.category, uploaded_by |-> i.uploaded_by,
                  uploaded_at |-> i.uploaded_at, label_count |-> i.label_count]
                    : i \in imgs},
     Labels |-> LabelsSheet(imgs, lbls),
     Statistics |-> Statistics(usrs, imgs, lbls, t)]

----------------------------------------------------------------------------
(* The except clauses *)

\* (variant) add_label's handler raises the error again, as add_image's does
OnError_LabelRaises(op) ==
    IF op \in {"add_image", "add_label"} THEN "raised" ELSE ""

\* what the handler of each operation does with an exception: add_image logs
\* it and raises it again, every other operation logs it and returns its
\* default value
OnError(op) ==
    IF op = "add_image" THEN "raised" ELSE ""

----------------------------------------------------------------------------
(* The pages (src/app.py): session state, the data cache, what a run shows *)

CACHE_TTL == 300     \* seconds a cached value is served
FeedLimit == 100     \* the limit render_feed_page passes to get_cached_images

\* the pages main routes to
Pages == {"dashboard", "upload", "feed", "analytics", "export"}

\* st.session_state: the keys that are set, with their values
EmptySession == [k \in {} |-> TRUE]
Has(s, k) == k \in DOMAIN s
Put(s, k, v) == [x \in DOMAIN s \cup {k} |-> IF x = k THEN v ELSE s[x]]

\* main: 'authenticated' and 'page' are set when they are missing
InitSessionState(s) ==
    LET a == IF Has(s, "authenticated") THEN s ELSE Put(s, "authenticated", FALSE)
    IN  IF Has(a, "page") THEN a ELSE Put(a, "page", "dashboard")

\* st.session_state.authenticated, False before main has set it
Authenticated(s) == Has(s, "authenticated") /\ s.authenticated

\* (variant) the login handler marks the session whatever authenticate_user returned
LoginDone_Always(s, ok, username) ==
    Put(Put(s, "authenticated", TRUE), "user", username)

\* render_auth_page, after authenticate_user returned ok
LoginDone(s, ok, username) ==
    IF ok THEN Put(Put(s, "authenticated", TRUE), "user", username) ELSE s

\* no script run of the session waits for a call
NoRun == [handler |-> "none"]

\* an entry of st.cache_data: absent, or a value with the time it was computed
NoEntry == [null |-> TRUE]
Entry(value, at) == [null |-> FALSE, value |-> value, at |-> at]
NoEntries == [k \in {} |-> NoEntry]
EntryOf(f, k) == IF k \in DOMAIN f THEN f[k] ELSE NoEntry
Store(f, k, e) == [x \in DOMAIN f \cup {k} |-> IF x = k THEN e ELSE f[x]]

\* st.cache_data.clear(): no entry of any cached function is left
EmptyCache == [stats |-> NoEntry, user_stats |-> NoEntries, images |-> NoEntries]

\* st.cache_data(ttl=CACHE_TTL): an entry is served while it is younger than the TTL
Fresh(e, t) == ~e.null /\ t < e.at + CACHE_TTL

\* a cached function called at time t: the stored entry when it is fresh,
\* otherwise the value computed now, which is stored
Serve(e, t, computed) == IF Fresh(e, t) THEN e ELSE Entry(computed, t)

\* what one script run put on the page: which run it was, the page, the
\* message, whether it ended in st.rerun(), and the cache entries its content
\* was read from
NothingServed == [stats |-> NoEntry, user_stats |-> NoEntry, images |-> NoEntry]
\* the number of the run of session p that ends in this step
Serial(p) == IF pc[p] = "idle" THEN nCalls + 1 ELSE nCalls
Screen(p, page, message, rerun, served) ==
    [serial |-> Serial(p), page |-> page, message |-> message, rerun |-> rerun,
     served |-> served]
NoScreen ==
    [serial |-> 0, page |-> "none", message |-> "", rerun |-> FALSE,
     served |-> NothingServed]

\* get_ip_location has not been called
NoLocation == [null |-> TRUE]
NoLookup == [requests |-> <<>>, returned |-> FALSE, value |-> NoLocation]

\* the handler of session p goes on after its service call returned
Resume(p, ok, reason) ==
    LET r == run[p]
    IN  CASE r.handler = "login" ->
                \* app.py 116-124
                /\ session' = [session EXCEPT ![p] = LoginDone(@, ok, r.username)]
                /\ shown' = [shown EXCEPT ![p] =
                        Screen(p, "auth",
                               IF ok THEN "Login successful! Welcome back!"
                               ELSE "Invalid username or password",
                               ok, NothingServed)]
                /\ run' = [run EXCEPT ![p] = NoRun]
                /\ UNCHANGED <<cache, clock, lookup>>
          [] r.handler = "register" ->
                \* app.py 190-196
                /\ shown' = [shown EXCEPT ![p] =
                        Screen(p, "auth",
                               IF ok THEN "Registration successful! Please login with your credentials."
                               ELSE IF reason = MsgExists
                                    THEN "Username already exists. Please choose another."
                                    ELSE reason,
                               FALSE, NothingServed)]
                /\ run' = [run EXCEPT ![p] = NoRun]
                /\ UNCHANGED <<session, cache, clock, lookup>>
          [] r.handler = "upload" ->
                \* app.py 454-473
                /\ IF ok
                   THEN /\ cache' = EmptyCache
                        /\ session' = [session EXCEPT ![p] = Put(@, "page", "feed")]
                        /\ shown' = [shown EXCEPT ![p] =
                                Screen(p, "upload", "Image uploaded successfully!", TRUE,
                                       NothingServed)]
                   ELSE /\ shown' = [shown EXCEPT ![p] =
                                Screen(p, "upload", "Upload failed", FALSE, NothingServed)]
                        /\ UNCHANGED <<session, cache>>
                /\ run' = [run EXCEPT ![p] = NoRun]
                /\ UNCHANGED <<clock, lookup>>
          [] r.handler = "label" ->
                \* app.py 641-652
                /\ IF reason = "raised"
                   THEN /\ shown' = [shown EXCEPT ![p] =
                                Screen(p, "feed", "Error adding label", FALSE, r.served)]
                        /\ UNCHANGED cache
                   ELSE /\ shown' = [shown EXCEPT ![p] =
                                Screen(p, "feed", "Label added successfully!", TRUE, r.served)]
                        /\ cache' = EmptyCache
                /\ run' = [run EXCEPT ![p] = NoRun]
                /\ UNCHANGED <<session, clock, lookup>>
          [] OTHER -> UNCHANGED ui

----------------------------------------------------------------------------
(* Initial state: a fresh database, no call in progress *)

Init ==
    /\ users = {}
    /\ images = {}
    /\ labels = {}
    /\ labelSeq = 0
    /\ analytics = EmptyBag
    /\ user_activities = EmptyBag
    /\ foreign_keys \in BOOLEAN
    /\ faulty = FALSE
    /\ files = {}
    /\ now = 1
    /\ uuidSeq = 0
    /\ pc = [p \in Procs |-> "idle"]
    /\ call = [p \in Procs |-> IdleCall]
    /\ last = [op |-> "none", args |-> IdleCall, ok |-> FALSE, reason |-> "", id |-> GhostImage]
    /\ result = NoResult
    /\ nCalls = 0
    /\ okRegs = [u \in Names |-> 0]
    /\ regArgs = {}
    /\ okImages = [u \in Names |-> 0]
    /\ okLabels = [u \in Names |-> 0]
    /\ returnedIds = EmptyBag
    /\ session = [p \in Procs |-> EmptySession]
    /\ run = [p \in Procs |-> NoRun]
    /\ shown = [p \in Procs |-> NoScreen]
    /\ cache = EmptyCache
    /\ clock = 0
    /\ lookup = [p \in Procs |-> NoLookup]

\* sessions p and q are in the same state
Alike(p, q) ==
    /\ pc[p] = pc[q] /\ session[p] = session[q] /\ run[p] = run[q]
    /\ shown[p] = shown[q] /\ lookup[p] = lookup[q]

\* a call begins in session p; sessions in the same state are interchangeable,
\* and the first of them takes the call
Begin(p) ==
    /\ pc[p] = "idle"
    /\ \A q \in Procs : q < p => ~Alike(p, q)
    /\ nCalls' = nCalls + 1

\* the call c of session p goes on at label l
Goto(p, c, l) ==
    /\ pc' = [pc EXCEPT ![p] = l]
    /\ call' = [call EXCEPT ![p] = c]
    /\ last' = last
    /\ result' = result
    /\ UNCHANGED ui

\* the call c of session p returns (or raises, when ok is false and reason says so)
Return(p, c, ok, reason, id) ==
    /\ pc' = [pc EXCEPT ![p] = "idle"]
    /\ call' = [call EXCEPT ![p] = IdleCall]
    /\ last' = [op |-> c.op, args |-> c, ok |-> ok, reason |-> reason, id |-> id]
    /\ result' = result
    /\ Resume(p, ok, reason)

----------------------------------------------------------------------------
(* create_user *)

\* strip, validate, INSERT INTO users, commit; every exception becomes a reason
create_user(p, username, password, age) ==
    LET c == [IdleCall EXCEPT !.op = "create_user", !.username = username,
                              !.password = password, !.age = age]
        u == Strip(username)
        pw == Strip(password)
        v == ValidateUser(u, pw)
    IN  /\ Begin(p)
        /\ UNCHANGED <<images, labels, labelSeq, analytics, user_activities,
                       env, now, uuidSeq, hist>>
        /\ IF v # "ok"
           THEN Return(p, c, FALSE, v, GhostImage) /\ users' = users
           ELSE IF AgeRaises(age)
           THEN Return(p, c, FALSE, MsgError, GhostImage) /\ users' = users
           ELSE IF faulty
           THEN Return(p, c, FALSE, MsgStorage, GhostImage) /\ users' = users
           ELSE IF UsernameTaken(users, u)
           THEN Return(p, c, FALSE, MsgExists, GhostImage) /\ users' = users
           ELSE /\ users' = users \cup {NewUserRow(u, pw, age)}
                /\ Goto(p, c, "create_user_log")

\* log_event('user_registered'), return True
create_user_log(p) ==
    /\ pc[p] = "create_user_log"
    /\ analytics' = LogEvent(analytics, faulty, "user_registered", Strip(call[p].username))
    /\ Return(p, call[p], TRUE, MsgCreated, GhostImage)
    /\ okRegs' = [okRegs EXCEPT ![Strip(call[p].username)] = @ + 1]
    /\ regArgs' = regArgs \cup {<<call[p].username, call[p].password>>}
    /\ UNCHANGED <<users, images, labels, labelSeq, user_activities, env,
                   now, uuidSeq, nCalls, okImages, okLabels, returnedIds>>

----------------------------------------------------------------------------
(* authenticate_user *)

\* SELECT id FROM users WHERE ...; return False when no row matches or the
\* statement raises
authenticate_user(p, username, password) ==
    LET c == [IdleCall EXCEPT !.op = "authenticate_user", !.username = username,
                              !.password = password]
    IN  /\ Begin(p)
        /\ UNCHANGED <<db, env, now, uuidSeq, hist>>
        /\ IF faulty
           THEN Return(p, c, FALSE, OnError("authenticate_user"), GhostImage)
           ELSE IF MatchUser(users, username, password) = {}
           THEN Return(p, c, FALSE, "", GhostImage)
           ELSE Goto(p, c, "authenticate_user_update")

\* UPDATE users SET last_login, commit; return False when the statement raises
authenticate_user_update(p) ==
    /\ pc[p] = "authenticate_user_update"
    /\ IF faulty
       THEN users' = users /\ Return(p, call[p], FALSE, OnError("authenticate_user"), GhostImage)
       ELSE /\ users' = SetLastLogin(users, call[p].username, now)
            /\ Goto(p, call[p], "authenticate_user_log")
    /\ UNCHANGED <<images, labels, labelSeq, analytics, user_activities,
                   env, now, uuidSeq, nCalls, hist>>

\* log_event('user_login'), return True
authenticate_user_log(p) ==
    /\ pc[p] = "authenticate_user_log"
    /\ analytics' = LogEvent(analytics, faulty, "user_login", call[p].username)
    /\ Return(p, call[p], TRUE, "", GhostImage)
    /\ UNCHANGED <<users, images, labels, labelSeq, user_activities,
                   env, now, uuidSeq, nCalls, hist>>

----------------------------------------------------------------------------
(* add_image *)

\* uuid4, INSERT INTO images, commit; an error is logged and raised again
add_image(p, title, description, category, image_path, uploaded_by, kwargs) ==
    LET id == uuidSeq + 1
        c == [IdleCall EXCEPT !.op = "add_image", !.title = title,
                              !.description = description, !.category = category,
                              !.image_path = image_path, !.username = uploaded_by,
                              !.kwargs = kwargs, !.image = id]
        row == NewImageRow(id, title, description, category, image_path, uploaded_by,
                           kwargs, now)
    IN  /\ Begin(p)
        /\ uuidSeq' = id
        /\ UNCHANGED <<users, labels, labelSeq, analytics, user_activities,
                       env, now, hist>>
        /\ IF faulty \/ ImageInsertFails(images, users, foreign_keys, row)
           THEN Return(p, c, FALSE, OnError("add_image"), GhostImage) /\ images' = images
           ELSE images' = images \cup {row} /\ Goto(p, c, "add_image_log")

\* log_event('image_uploaded')
add_image_log(p) ==
    /\ pc[p] = "add_image_log"
    /\ analytics' = LogEvent(analytics, faulty, "image_uploaded", call[p].username)
    /\ Goto(p, call[p], "add_image_activity")
    /\ UNCHANGED <<users, images, labels, labelSeq, user_activities,
                   env, now, uuidSeq, nCalls, hist>>

\* _record_user_activity(uploaded_by, 'image_upload', ..., 10), return image_id
add_image_activity(p) ==
    /\ pc[p] = "add_image_activity"
    /\ user_activities' = RecordActivity(user_activities, users, foreign_keys, faulty,
                                         call[p].username, "image_upload", ImagePoints)
    /\ Return(p, call[p], TRUE, "", call[p].image)
    /\ okImages' = [okImages EXCEPT ![call[p].username] = @ + 1]
    /\ returnedIds' = returnedIds (+) SetToBag({call[p].image})
    /\ UNCHANGED <<users, images, labels, labelSeq, analytics,
                   env, now, uuidSeq, nCalls, okRegs, regArgs, okLabels>>

----------------------------------------------------------------------------
(* add_label *)

\* INSERT OR REPLACE INTO labels, UPDATE images SET label_count, commit: one
\* transaction.  A str text goes on to the logging; len(text) of an int raises
\* after the commit, and the call returns False.
add_label(p, image_id, text, language, added_by) ==
    LET c == [IdleCall EXCEPT !.op = "add_label", !.image = image_id, !.text = text,
                              !.language = language, !.username = added_by]
        row == [id |-> labelSeq + 1, image_id |-> image_id, text |-> text,
                language |-> language, added_by |-> added_by, added_at |-> now]
        lbls == InsertOrReplace(labels, row)
    IN  /\ Begin(p)
        /\ UNCHANGED <<users, analytics, user_activities, env, now,
                       uuidSeq, hist>>
        /\ IF faulty \/ LabelInsertFails(images, users, foreign_keys, row)
           THEN /\ Return(p, c, FALSE, OnError("add_label"), GhostImage)
                /\ UNCHANGED <<labels, labelSeq, images>>
           ELSE /\ labels' = lbls
                /\ labelSeq' = labelSeq + 1
                /\ images' = SetLabelCount(images, lbls, image_id)
                /\ IF text = IntText
                   THEN Return(p, c, FALSE, OnError("add_label"), GhostImage)
                   ELSE Goto(p, c, "add_label_log")

\* log_event('label_added')
add_label_log(p) ==
    /\ pc[p] = "add_label_log"
    /\ analytics' = LogEvent(analytics, faulty, "label_added", call[p].username)
    /\ Goto(p, call[p], "add_label_activity")
    /\ UNCHANGED <<users, images, labels, labelSeq, user_activities,
                   env, now, uuidSeq, nCalls, hist>>

\* _record_user_activity(added_by, 'label_add', ..., 5), return True
add_label_activity(p) ==
    /\ pc[p] = "add_label_activity"
    /\ user_activities' = RecordActivity(user_activities, users, foreign_keys, faulty,
                                         call[p].username, "label_add", LabelPoints)
    /\ Return(p, call[p], TRUE, "", GhostImage)
    /\ okLabels' = [okLabels EXCEPT ![call[p].username] = @ + 1]
    /\ UNCHANGED <<users, images, labels, labelSeq, analytics,
                   env, now, uuidSeq, nCalls, okRegs, regArgs, okImages,
                   returnedIds>>

----------------------------------------------------------------------------
(* Queries.  Each is one read on a connection of its own; it takes a session *)
(* that is not inside another call, and changes nothing.                     *)

\* the query q of an idle session returns value v
Answer(q, v) ==
    /\ \E p \in Procs : pc[p] = "idle"
    /\ result' = [q EXCEPT !.value = v]
    /\ UNCHANGED <<db, env, now, uuidSeq, pc, call, last, nCalls, hist, ui>>

\* SELECT * FROM labels WHERE image_id = ? ORDER BY added_at DESC; [] on an error
get_image_labels(image_id) ==
    LET q == [op |-> "get_image_labels", image |-> image_id, failed |-> faulty,
              value |-> <<>>]
    IN  IF faulty THEN Answer(q, <<>>)
        ELSE \E v \in SelectLabels(labels, image_id) : Answer(q, v)

\* the filtered, grouped, ordered and limited SELECT of get_images; [] on an error
get_images(category, language, search, limit) ==
    LET q == [op |-> "get_images", category |-> category, language |-> language,
              search |-> search, limit |-> limit, failed |-> faulty, value |-> <<>>]
    IN  IF faulty THEN Answer(q, <<>>)
        ELSE \E v \in SelectImages(images, labels, category, language, search, limit) :
                Answer(q, v)

\* the six SELECTs of get_user_stats, on one connection; {} on an error
get_user_stats(username) ==
    LET q == [op |-> "get_user_stats", username |-> username, failed |-> faulty,
              value |-> <<>>]
    IN  IF faulty THEN Answer(q, <<>>)
        ELSE Answer(q, UserStats(images, labels, user_activities, username))

\* the SELECTs of get_statistics, on one connection; {} on an error
get_statistics ==
    LET q == [op |-> "get_statistics", failed |-> faulty, value |-> <<>>]
    IN  IF faulty THEN Answer(q, <<>>)
        ELSE Answer(q, Statistics(users, images, labels, now))

\* {} on an error
get_category_statistics ==
    LET q == [op |-> "get_category_statistics", failed |-> faulty, value |-> <<>>]
    IN  IF faulty THEN Answer(q, <<>>) ELSE Answer(q, CategoryStatistics(images))

\* {} on an error
get_language_statistics ==
    LET q == [op |-> "get_language_statistics", failed |-> faulty, value |-> <<>>]
    IN  IF faulty THEN Answer(q, <<>>) ELSE Answer(q, LanguageStatistics(labels))

\* [] on an error
get_activity_timeline(days) ==
    LET q == [op |-> "get_activity_timeline", days |-> days, failed |-> faulty,
              value |-> <<>>]
    IN  IF faulty THEN Answer(q, <<>>)
        ELSE Answer(q, ActivityTimeline(images, now, days))

----------------------------------------------------------------------------
(* Exports *)

\* the reads of the three tables and get_statistics, written to four sheets;
\* None on an error.  (The reads are taken at one moment.)
export_to_excel ==
    LET q == [op |-> "export_to_excel", failed |-> faulty, value |-> Null]
    IN  IF faulty THEN Answer(q, Null)
        ELSE Answer(q, [null |-> FALSE, sheets |-> Workbook(users, images, labels, now)])

\* SELECT ... FROM images WHERE image_path IS NOT NULL, and one entry per row
\* whose file exists; None on an error
create_images_zip ==
    LET q == [op |-> "create_images_zip", failed |-> faulty, value |-> Null]
    IN  IF faulty THEN Answer(q, Null)
        ELSE Answer(q, [null |-> FALSE, entries |-> ZipEntries(images, files)])

----------------------------------------------------------------------------
(* The environment: the clock, the disk, the database file *)

\* the upload page writes the image file before it calls add_image
SaveFile(path) ==
    /\ path \notin files
    /\ files' = files \cup {path}
    /\ UNCHANGED <<db, foreign_keys, faulty, now, uuidSeq, pc, call, last, result,
                   nCalls, hist, ui>>

\* a file is removed from the disk (nothing in the program does it)
RemoveFile(path) ==
    /\ path \in files
    /\ files' = files \ {path}
    /\ UNCHANGED <<db, foreign_keys, faulty, now, uuidSeq, pc, call, last, result,
                   nCalls, hist, ui>>

\* the database file becomes unusable (locked, unreadable, disk full) ...
StorageFails ==
    /\ ~faulty
    /\ faulty' = TRUE
    /\ UNCHANGED <<db, foreign_keys, files, now, uuidSeq, pc, call, last, result,
                   nCalls, hist, ui>>

\* ... and usable again
StorageRecovers ==
    /\ faulty
    /\ faulty' = FALSE
    /\ UNCHANGED <<db, foreign_keys, files, now, uuidSeq, pc, call, last, result,
                   nCalls, hist, ui>>

\* time passes
Tick ==
    /\ now < MaxTime
    /\ now' = now + 1
    /\ UNCHANGED <<db, env, uuidSeq, pc, call, last, result, nCalls, hist, ui>>

----------------------------------------------------------------------------
(* The pages.  Every interaction of a browser session is one run of main;    *)
(* a run that calls a writing operation of the service waits for its return. *)

\* a run of main can start in session p (sessions in the same state are
\* interchangeable, and the first of them runs)
Start(p) ==
    /\ pc[p] = "idle" /\ run[p] = NoRun
    /\ \A q \in Procs : q < p => ~Alike(p, q)

\* runs that have reached a call which has not begun yet
Pending == Cardinality({q \in Procs : run[q] # NoRun /\ pc[q] = "idle"})
MayRun(max) == nCalls + Pending < max

\* the run of session p ends: session state s, page content screen, cache c
Ran(p, s, screen, c) ==
    /\ session' = [session EXCEPT ![p] = s]
    /\ shown' = [shown EXCEPT ![p] = screen]
    /\ cache' = c
    /\ nCalls' = nCalls + 1
    /\ UNCHANGED <<db, env, now, uuidSeq, pc, call, last, result, hist, run, clock, lookup>>

\* the run of session p has reached the call r of a writing operation
Submitted(p, s, r, c) ==
    /\ session' = [session EXCEPT ![p] = s]
    /\ run' = [run EXCEPT ![p] = r]
    /\ cache' = c
    /\ UNCHANGED <<db, env, now, uuidSeq, pc, call, last, result, nCalls, hist, shown,
                   clock, lookup>>

\* main on a session that is not authenticated, nothing submitted:
\* render_auth_page and return
auth_page(p) ==
    /\ Start(p)
    /\ ~Authenticated(session[p])
    /\ Ran(p, InitSessionState(session[p]), Screen(p, "auth", "", FALSE, NothingServed), cache)

\* the login form is submitted
login_submit(p, username, password) ==
    /\ Start(p)
    /\ ~Authenticated(session[p])
    /\ IF username # <<>> /\ password # <<>>
       THEN Submitted(p, InitSessionState(session[p]),
                      [handler |-> "login", username |-> username, password |-> password],
                      cache)
       ELSE Ran(p, InitSessionState(session[p]),
                Screen(p, "auth", "Please fill in all required fields", FALSE, NothingServed),
                cache)

\* backend.authenticate_user(username, password)
login_call(p) ==
    /\ run[p].handler = "login"
    /\ authenticate_user(p, run[p].username, run[p].password)

\* the registration form is submitted; age is the number field, None when blank
register_submit(p, new_username, new_password, confirm_password, age) ==
    /\ Start(p)
    /\ ~Authenticated(session[p])
    /\ IF new_username = <<>> \/ new_password = <<>> \/ confirm_password = <<>>
       THEN Ran(p, InitSessionState(session[p]),
                Screen(p, "auth", "Please fill in all required fields", FALSE, NothingServed),
                cache)
       ELSE IF new_password # confirm_password
       THEN Ran(p, InitSessionState(session[p]),
                Screen(p, "auth", "Passwords do not match", FALSE, NothingServed), cache)
       ELSE Submitted(p, InitSessionState(session[p]),
                      [handler |-> "register", username |-> new_username,
                       password |-> new_password, age |-> age],
                      cache)

\* backend.create_user(new_username, new_password, ..., age=age)
register_call(p) ==
    /\ run[p].handler = "register"
    /\ create_user(p, run[p].username, run[p].password, run[p].age)

\* a navigation button of the sidebar or of the dashboard is clicked:
\* the page is set and the script runs again
navigate(p, page) ==
    /\ Start(p)
    /\ Authenticated(session[p])
    /\ Ran(p, Put(session[p], "page", page),
           Screen(p, "sidebar", "", TRUE, NothingServed), cache)

\* the Logout button: the cache and every key of the session state are cleared
logout(p) ==
    /\ Start(p)
    /\ Authenticated(session[p])
    /\ Ran(p, EmptySession, Screen(p, "sidebar", "", TRUE, NothingServed), EmptyCache)

\* the value the service returns for get_statistics now
ComputedStats == IF faulty THEN <<>> ELSE Statistics(users, images, labels, now)
\* the value the service returns for get_user_stats(username) now
ComputedUserStats(username) ==
    IF faulty THEN <<>> ELSE UserStats(images, labels, user_activities, username)

\* render_dashboard: get_cached_user_stats(user) and get_cached_stats()
render_dashboard(p) ==
    LET user == session[p].user
        mine == Serve(EntryOf(cache.user_stats, user), clock, ComputedUserStats(user))
        all == Serve(cache.stats, clock, ComputedStats)
    IN  /\ Start(p)
        /\ Authenticated(session[p])
        /\ session[p].page \notin Pages \ {"dashboard"}
        /\ Ran(p, session[p],
               Screen(p, "dashboard", "", FALSE,
                      [NothingServed EXCEPT !.stats = all, !.user_stats = mine]),
               [cache EXCEPT !.stats = all, !.user_stats = Store(@, user, mine)])

\* render_analytics_page: get_cached_stats() and three statistics read afresh
render_analytics(p) ==
    LET all == Serve(cache.stats, clock, ComputedStats)
    IN  /\ Start(p)
        /\ Authenticated(session[p])
        /\ session[p].page = "analytics"
        /\ Ran(p, session[p],
               Screen(p, "analytics", "", FALSE, [NothingServed EXCEPT !.stats = all]),
               [cache EXCEPT !.stats = all])

\* render_export_page, no export button clicked
render_export(p) ==
    /\ Start(p)
    /\ Authenticated(session[p])
    /\ session[p].page = "export"
    /\ Ran(p, session[p], Screen(p, "export", "", FALSE, NothingServed), cache)

\* the text of a label field whose characters are cs
Text(cs) == CHOOSE s \in {"cat", "dog", "billi"} : Chars(s) = cs

\* the values the service can return for get_images(...) now
ComputedImages(category, language, search, limit) ==
    IF faulty THEN {<<>>}
    ELSE SelectImages(images, labels, category, language, search, limit)

\* render_feed_page: get_cached_images(category, language, search, limit=100)
\* and a card with a label form for every row; nothing is submitted
render_feed(p, category) ==
    LET key == <<category, None, None, FeedLimit>>
    IN  /\ Start(p)
        /\ Authenticated(session[p])
        /\ session[p].page = "feed"
        /\ \E v \in ComputedImages(category, None, None, FeedLimit) :
            LET e == Serve(EntryOf(cache.images, key), clock, v)
            IN  Ran(p, session[p],
                    Screen(p, "feed", "", FALSE, [NothingServed EXCEPT !.images = e]),
                    [cache EXCEPT !.images = Store(@, key, e)])

\* render_image_card: the label form of the k-th card is submitted
label_submit(p, category, k, label_text, label_lang) ==
    LET key == <<category, None, None, FeedLimit>>
    IN  /\ Start(p)
        /\ Authenticated(session[p])
        /\ session[p].page = "feed"
        /\ \E v \in ComputedImages(category, None, None, FeedLimit) :
            LET e == Serve(EntryOf(cache.images, key), clock, v)
                served == [NothingServed EXCEPT !.images = e]
                c == [cache EXCEPT !.images = Store(@, key, e)]
            IN  /\ k \in 1..Len(e.value)
                /\ IF Strip(label_text) # <<>>
                   THEN Submitted(p, session[p],
                                  [handler |-> "label", image |-> e.value[k].image.id,
                                   text |-> Text(Strip(label_text)),
                                   language |-> label_lang, served |-> served],
                                  c)
                   ELSE Ran(p, session[p],
                            Screen(p, "feed", "Please enter a label", FALSE, served), c)

\* backend.add_label(image_data['id'], label_text.strip(), label_lang, user)
label_call(p) ==
    /\ run[p].handler = "label"
    /\ add_label(p, run[p].image, run[p].text, run[p].language, session[p].user)

\* decoded JSON values
JNull == [type |-> "null", text |-> ""]
JNumber(t) == [type |-> "number", text |-> t]
JString(t) == [type |-> "string", text |-> t]

\* the truth value Python gives a decoded JSON value
TruthyJson(v) ==
    CASE v.type = "null" -> FALSE
      [] v.type = "number" -> v.text \notin {"0", "0.0"}
      [] OTHER -> v.text # ""

\* float(v) raises ValueError for a string that is no number
FloatRaises(v) == v.type = "string" /\ v.text \notin {"17", "17.4", "78.5"}

\* float(v), written as Python prints it
Float(v) == IF v.text = "17" THEN "17.0" ELSE v.text

\* what one requests.get can come to: an exception, or a response with its
\* status and the fields of its body (the two services name them differently:
\* latitude, longitude, country_name and lat, lon, country)
Failed(exception) ==
    [raises |-> exception, status |-> 0, latitude |-> JNull, longitude |-> JNull,
     city |-> None, country |-> None]
Response(status, latitude, longitude, city, country) ==
    [raises |-> "", status |-> status, latitude |-> latitude, longitude |-> longitude,
     city |-> city, country |-> country]
Outcomes ==
    {Failed("Timeout"),
     Response(500, JNull, JNull, None, None),
     Response(200, JNull, JNull, None, None),
     Response(200, JNumber("0"), JNumber("78.5"), None, None),
     Response(200, JString("abc"), JNumber("78.5"), "Hyderabad", "India"),
     Response(200, JNumber("17.4"), JNumber("78.5"), "Hyderabad", "India")}

\* the request gave a location: status 200, both coordinates truthy, and
\* float() took them
YieldsLocation(o) ==
    /\ o.raises = ""
    /\ o.status = 200
    /\ TruthyJson(o.latitude) /\ TruthyJson(o.longitude)
    /\ ~FloatRaises(o.latitude) /\ ~FloatRaises(o.longitude)

\* the location dict built from a response
LocationOf(o) ==
    [null |-> FALSE, latitude |-> Float(o.latitude), longitude |-> Float(o.longitude),
     city |-> o.city, country |-> o.country, method |-> "IP"]

\* (variant) the fallback service is asked whatever the primary gave
AfterPrimary_Always(o) == "fallback"

\* get_ip_location after the primary request: return the location, or go on
\* to the fallback service
AfterPrimary(o) == IF YieldsLocation(o) THEN "return" ELSE "fallback"

\* reverse_geocode: the address fields, None where Nominatim gave nothing
ReverseGeocodes == {[city |-> None, country |-> None],
                    [city |-> "Hyderabad", country |-> "India"]}

\* the latitude and longitude keywords the upload page passes to add_image
UploadKwargs(location_data) ==
    [NoKwargs EXCEPT
        !.latitude = IF location_data.null THEN None ELSE location_data.latitude,
        !.longitude = IF location_data.null THEN None ELSE location_data.longitude]

\* a step of the upload page's run in session p
UploadStep(p, s, r, l) ==
    /\ session' = [session EXCEPT ![p] = s]
    /\ run' = [run EXCEPT ![p] = r]
    /\ lookup' = [lookup EXCEPT ![p] = l]
    /\ UNCHANGED <<db, env, now, uuidSeq, pc, call, last, result, nCalls, hist, shown,
                   cache, clock>>

\* the run has location_data from the chosen method and goes on to the rest
\* of the form
FormWith(method, location_data) ==
    [handler |-> "upload_form", method |-> method, location |-> location_data]

\* render_upload_page with a file chosen, up to the location widget
\* (display_location_widget_in_form); lat and lon are the manual fields
upload_page(p, method, lat, lon) ==
    /\ Start(p)
    /\ Authenticated(session[p])
    /\ session[p].page = "upload"
    /\ CASE method = "IP" ->
              IF Has(session[p], "ip_location_cache")
              THEN UploadStep(p, session[p], FormWith("IP", session[p].ip_location_cache),
                              lookup[p])
              ELSE UploadStep(p, session[p],
                              [handler |-> "get_ip_location", stage |-> "primary"],
                              NoLookup)
         [] method = "Manual" ->
              IF lat # "0.0" \/ lon # "0.0"
              THEN \E g \in ReverseGeocodes :
                      UploadStep(p, session[p],
                                 FormWith("Manual",
                                          [null |-> FALSE, latitude |-> lat,
                                           longitude |-> lon, city |-> g.city,
                                           country |-> g.country,
                                           method |-> "Manual"]),
                                 lookup[p])
              ELSE UploadStep(p, session[p], FormWith("Manual", NoLocation), lookup[p])
         [] OTHER -> UploadStep(p, session[p], FormWith("No Location", NoLocation),
                                lookup[p])

\* get_ip_location: requests.get of the primary service comes to outcome o
primary_request(p, o) ==
    LET sent == Append(lookup[p].requests, [service |-> "primary", outcome |-> o])
    IN  /\ pc[p] = "idle"
        /\ run[p].handler = "get_ip_location"
        /\ run[p].stage = "primary"
        /\ IF AfterPrimary(o) = "return"
           THEN UploadStep(p, Put(session[p], "ip_location_cache", LocationOf(o)),
                           FormWith("IP", LocationOf(o)),
                           [requests |-> sent, returned |-> TRUE, value |-> LocationOf(o)])
           ELSE UploadStep(p, session[p],
                           [handler |-> "get_ip_location", stage |-> "fallback"],
                           [requests |-> sent, returned |-> FALSE, value |-> NoLocation])

\* get_ip_location: requests.get of the fallback service comes to outcome o
fallback_request(p, o) ==
    LET sent == Append(lookup[p].requests, [service |-> "fallback", outcome |-> o])
    IN  /\ pc[p] = "idle"
        /\ run[p].handler = "get_ip_location"
        /\ run[p].stage = "fallback"
        /\ IF YieldsLocation(o)
           THEN UploadStep(p, Put(session[p], "ip_location_cache", LocationOf(o)),
                           FormWith("IP", LocationOf(o)),
                           [requests |-> sent, returned |-> TRUE, value |-> LocationOf(o)])
           ELSE UploadStep(p, session[p], FormWith("IP", NoLocation),
                           [requests |-> sent, returned |-> TRUE, value |-> NoLocation])

\* the rest of the upload form: shown, or submitted with a title and a
\* category; the file is written under a fresh name before add_image is called
upload_form(p, submitted, title, category, file_path) ==
    /\ pc[p] = "idle"
    /\ run[p].handler = "upload_form"
    /\ IF ~submitted \/ title = "" \/ category = ""
       THEN /\ shown' = [shown EXCEPT ![p] =
                    Screen(p, "upload",
                           IF submitted
                           THEN "Please fill in all required fields (Title and Category)"
                           ELSE "",
                           FALSE, NothingServed)]
            /\ run' = [run EXCEPT ![p] = NoRun]
            /\ nCalls' = nCalls + 1
            /\ UNCHANGED files
       ELSE /\ file_path \notin files
            /\ files' = files \cup {file_path}
            /\ run' = [run EXCEPT ![p] =
                    [handler |-> "upload", title |-> title, description |-> "",
                     category |-> category, file |-> file_path,
                     method |-> run[p].method, location |-> run[p].location]]
            /\ UNCHANGED <<shown, nCalls>>
    /\ UNCHANGED <<db, foreign_keys, faulty, now, uuidSeq, pc, call, last, result, hist,
                   session, cache, clock, lookup>>

\* backend.add_image(title=..., latitude=..., longitude=...)
upload_call(p) ==
    /\ run[p].handler = "upload"
    /\ add_image(p, run[p].title, run[p].description, run[p].category, run[p].file,
                 session[p].user, UploadKwargs(run[p].location))

\* time passes: to just before the age at which an entry made on a multiple
\* of the TTL expires, then to that age
Elapse ==
    /\ clock < MaxClock
    /\ clock' = IF (clock + 1) % CACHE_TTL = 0 THEN clock + 1 ELSE clock + CACHE_TTL - 1
    /\ UNCHANGED <<db, env, now, uuidSeq, pc, call, last, result, nCalls, hist,
                   session, run, shown, cache, lookup>>

----------------------------------------------------------------------------
(* Spec: images and labels.  Two sessions register, upload and label         *)
(* concurrently; registration takes one well-formed argument pair per user. *)

Next ==
    \/ /\ nCalls < MaxCalls
       /\ \E p \in Procs, u \in {U_sp_abc}, pw \in {P_pqr}, a \in {AgeAbsent} :
            create_user(p, u, pw, a)
    \/ \E p \in Procs : create_user_log(p)
    \/ /\ nCalls < MaxCalls
       /\ \E p \in Procs, t \in TitleInputs, d \in DescriptionInputs,
             c \in CategoryInputs, f \in PathInputs, u \in ActorInputs :
            add_image(p, t, d, c, f, u, NoKwargs)
    \/ \E p \in Procs : add_image_log(p)
    \/ \E p \in Procs : add_image_activity(p)
    \/ /\ nCalls < MaxCalls
       /\ \E p \in Procs, i \in ImageArgs, t \in TextInputs, l \in LanguageInputs,
             u \in ActorInputs :
            add_label(p, i, t, l, u)
    \/ \E p \in Procs : add_label_log(p)
    \/ \E p \in Procs : add_label_activity(p)

Spec == Init /\ [][Next]_vars

----------------------------------------------------------------------------
(* SpecUsers: registration and login.  Two sessions register and            *)
(* authenticate concurrently, with every kind of argument.                  *)

NextUsers ==
    \/ /\ nCalls < MaxUserCalls
       /\ \E p \in Procs, u \in UsernameInputs, pw \in PasswordInputs, a \in AgeInputs :
            create_user(p, u, pw, a)
    \/ \E p \in Procs : create_user_log(p)
    \/ /\ nCalls < MaxUserCalls
       /\ \E p \in Procs, u \in LoginNameInputs, pw \in LoginPasswordInputs :
            authenticate_user(p, u, pw)
    \/ \E p \in Procs : authenticate_user_update(p)
    \/ \E p \in Procs : authenticate_user_log(p)
    \/ Tick

SpecUsers == Init /\ [][NextUsers]_vars

----------------------------------------------------------------------------
(* SpecQueries: get_images and get_image_labels.  Calls register a user,    *)
(* upload and label, one after the other; the queries are then asked of the *)
(* database as it stands, with every combination of filters.  A behaviour   *)
(* is followed up to its first query and the queries asked there.           *)

NothingAsked == result = NoResult
Quiet == \A p \in Procs : pc[p] = "idle"
MayCall(max) == NothingAsked /\ Quiet /\ nCalls < max

NextQueries ==
    \/ /\ MayCall(MaxQueryCalls)
       /\ \E p \in Procs : create_user(p, U_sp_abc, P_pqr, AgeAbsent)
    \/ \E p \in Procs : create_user_log(p)
    \/ /\ MayCall(MaxQueryCalls)
       /\ \E p \in Procs, f \in QueryUploads :
            add_image(p, f.title, f.description, f.category, "uploads/1.jpg", U_abc, NoKwargs)
    \/ \E p \in Procs : add_image_log(p)
    \/ \E p \in Procs : add_image_activity(p)
    \/ /\ MayCall(MaxQueryCalls)
       /\ \E p \in Procs, i \in 1..uuidSeq, t \in QueryLabels :
            add_label(p, i, t.text, t.language, U_abc)
    \/ \E p \in Procs : add_label_log(p)
    \/ \E p \in Procs : add_label_activity(p)
    \/ NothingAsked /\ Quiet /\ Tick
    \/ NothingAsked /\ Quiet /\ \E i \in 1..uuidSeq : get_image_labels(i)
    \/ /\ NothingAsked /\ Quiet
       /\ \E c \in CategoryFilters, l \in LanguageFilters, s \in SearchFilters,
             n \in LimitInputs :
            get_images(c, l, s, n)

SpecQueries == Init /\ [][NextQueries]_vars

----------------------------------------------------------------------------
(* SpecStats: get_user_stats.  Two users register, upload and label         *)
(* concurrently; the statistics of each are asked at any moment.  A         *)
(* behaviour is followed up to its first query.                             *)

NextStats ==
    \/ /\ NothingAsked /\ nCalls < MaxStatsCalls
       /\ \E p \in Procs, u \in QueryUsers : create_user(p, u, P_pqr, AgeAbsent)
    \/ NothingAsked /\ \E p \in Procs : create_user_log(p)
    \/ /\ NothingAsked /\ nCalls < MaxStatsCalls
       /\ \E p \in Procs, u \in QueryActors :
            add_image(p, "Cat", None, "Animals", "uploads/1.jpg", u, NoKwargs)
    \/ NothingAsked /\ \E p \in Procs : add_image_log(p)
    \/ NothingAsked /\ \E p \in Procs : add_image_activity(p)
    \/ /\ NothingAsked /\ nCalls < MaxStatsCalls
       /\ \E p \in Procs, i \in ImageArgs, u \in QueryActors :
            add_label(p, i, "cat", "en", u)
    \/ NothingAsked /\ \E p \in Procs : add_label_log(p)
    \/ NothingAsked /\ \E p \in Procs : add_label_activity(p)
    \/ NothingAsked /\ \E u \in QueryActors : get_user_stats(u)

SpecStats == Init /\ [][NextStats]_vars

----------------------------------------------------------------------------
(* SpecExport: create_images_zip and export_to_excel.  The sessions         *)
(* register, upload and label concurrently while image files appear on and  *)
(* disappear from the disk; an export is made at any moment.  A behaviour   *)
(* is followed up to its first export.                                      *)

NextExport ==
    \/ /\ NothingAsked /\ nCalls < MaxExportCalls
       /\ \E p \in Procs : create_user(p, U_sp_abc, P_pqr, AgeAbsent)
    \/ NothingAsked /\ \E p \in Procs : create_user_log(p)
    \/ /\ NothingAsked /\ nCalls < MaxExportCalls
       /\ \E p \in Procs, t \in ExportTitles, f \in ExportPaths :
            add_image(p, t, None, "Animals", f, U_abc, NoKwargs)
    \/ NothingAsked /\ \E p \in Procs : add_image_log(p)
    \/ NothingAsked /\ \E p \in Procs : add_image_activity(p)
    \/ /\ NothingAsked /\ nCalls < MaxExportCalls
       /\ \E p \in Procs, i \in ImageArgs : add_label(p, i, "cat", "en", U_abc)
    \/ NothingAsked /\ \E p \in Procs : add_label_log(p)
    \/ NothingAsked /\ \E p \in Procs : add_label_activity(p)
    \/ NothingAsked /\ \E f \in ExportPaths : SaveFile(f)
    \/ NothingAsked /\ \E f \in ExportPaths : RemoveFile(f)
    \/ NothingAsked /\ create_images_zip
    \/ NothingAsked /\ export_to_excel

SpecExport == Init /\ [][NextExport]_vars

----------------------------------------------------------------------------
(* SpecArchive: create_images_zip over uploads of one user.  The sessions   *)
(* upload images of one title and category, each with a file of its own     *)
(* name; the archive is made at any moment.  A behaviour is followed up to  *)
(* its first export.                                                        *)

NextArchive ==
    \/ /\ NothingAsked /\ nCalls < MaxArchiveCalls
       /\ \E p \in Procs, f \in ArchivePaths \ {i.image_path : i \in images} :
            add_image(p, "Cat", None, "Animals", f, U_abc, NoKwargs)
    \/ NothingAsked /\ \E p \in Procs : add_image_log(p)
    \/ NothingAsked /\ \E p \in Procs : add_image_activity(p)
    \/ NothingAsked /\ \E f \in ArchivePaths : SaveFile(f)
    \/ NothingAsked /\ \E f \in ArchivePaths : RemoveFile(f)
    \/ NothingAsked /\ create_images_zip

SpecArchive == Init /\ [][NextArchive]_vars

----------------------------------------------------------------------------
(* SpecAggregates: get_statistics, get_category_statistics and              *)
(* get_language_statistics.  The sessions register, upload and label        *)
(* concurrently; an aggregate is asked at any moment.  A behaviour is       *)
(* followed up to its first query.                                          *)

NextAggregates ==
    \/ /\ NothingAsked /\ nCalls < MaxAggregateCalls
       /\ \E p \in Procs : create_user(p, U_sp_abc, P_pqr, AgeAbsent)
    \/ NothingAsked /\ \E p \in Procs : create_user_log(p)
    \/ /\ NothingAsked /\ nCalls < MaxAggregateCalls
       /\ \E p \in Procs, c \in {"Animals", "Food"} :
            add_image(p, "Cat", None, c, "uploads/1.jpg", U_abc, NoKwargs)
    \/ NothingAsked /\ \E p \in Procs : add_image_log(p)
    \/ NothingAsked /\ \E p \in Procs : add_image_activity(p)
    \/ /\ NothingAsked /\ nCalls < MaxAggregateCalls
       /\ \E p \in Procs, i \in ImageArgs, l \in LanguageInputs :
            add_label(p, i, "cat", l, U_abc)
    \/ NothingAsked /\ \E p \in Procs : add_label_log(p)
    \/ NothingAsked /\ \E p \in Procs : add_label_activity(p)
    \/ NothingAsked /\ get_statistics
    \/ NothingAsked /\ get_category_statistics
    \/ NothingAsked /\ get_language_statistics

SpecAggregates == Init /\ [][NextAggregates]_vars

----------------------------------------------------------------------------
(* SpecSession: two browser sessions register, log in, move between the    *)
(* pages and log out.                                                       *)

NextSession ==
    \/ /\ MayRun(MaxSessionRuns)
       /\ \E p \in Procs : auth_page(p)
    \/ /\ MayRun(MaxSessionRuns)
       /\ \E p \in Procs, c \in {P_pqr, P_xyz} :
            register_submit(p, U_abc, P_pqr, c, FormAge13)
    \/ \E p \in Procs : register_call(p)
    \/ \E p \in Procs : create_user_log(p)
    \/ /\ MayRun(MaxSessionRuns)
       /\ \E p \in Procs, pw \in {P_empty, P_pqr, P_xyz} : login_submit(p, U_abc, pw)
    \/ \E p \in Procs : login_call(p)
    \/ \E p \in Procs : authenticate_user_update(p)
    \/ \E p \in Procs : authenticate_user_log(p)
    \/ /\ MayRun(MaxSessionRuns)
       /\ \E p \in Procs, page \in Pages : navigate(p, page)
    \/ /\ MayRun(MaxSessionRuns)
       /\ \E p \in Procs : logout(p)
    \/ /\ MayRun(MaxSessionRuns)
       /\ \E p \in Procs : render_dashboard(p)
    \/ /\ MayRun(MaxSessionRuns)
       /\ \E p \in Procs : render_analytics(p)
    \/ /\ MayRun(MaxSessionRuns)
       /\ \E p \in Procs : render_export(p)
    \/ /\ MayRun(MaxSessionRuns)
       /\ \E p \in Procs : upload_page(p, "No Location", "0.0", "0.0")
    \/ \E p \in Procs : upload_form(p, TRUE, "Cat", "Animals", "uploads/1.jpg")
    \/ \E p \in Procs : upload_call(p)
    \/ \E p \in Procs : add_image_log(p)
    \/ \E p \in Procs : add_image_activity(p)
    \/ /\ MayRun(MaxSessionRuns)
       /\ \E p \in Procs : render_feed(p, None)
    \/ /\ MayRun(MaxSessionRuns)
       /\ \E p \in Procs : label_submit(p, None, 1, <<" ", "c", "a", "t">>, "en")
    \/ \E p \in Procs : label_call(p)
    \/ \E p \in Procs : add_label_log(p)
    \/ \E p \in Procs : add_label_activity(p)

SpecSession == Init /\ [][NextSession]_vars

----------------------------------------------------------------------------
(* SpecFeed: a session registers, logs in, uploads an image and labels it   *)
(* on the feed page, while the database file may become unusable.           *)

NextFeed ==
    \/ /\ MayRun(MaxFeedRuns)
       /\ \E p \in Procs : register_submit(p, U_abc, P_pqr, P_pqr, FormAge13)
    \/ \E p \in Procs : register_call(p)
    \/ \E p \in Procs : create_user_log(p)
    \/ /\ MayRun(MaxFeedRuns)
       /\ \E p \in Procs : login_submit(p, U_abc, P_pqr)
    \/ \E p \in Procs : login_call(p)
    \/ \E p \in Procs : authenticate_user_update(p)
    \/ \E p \in Procs : authenticate_user_log(p)
    \/ /\ MayRun(MaxFeedRuns)
       /\ \E p \in Procs, page \in {"upload", "feed"} : navigate(p, page)
    \/ /\ MayRun(MaxFeedRuns)
       /\ \E p \in Procs : upload_page(p, "No Location", "0.0", "0.0")
    \/ \E p \in Procs : upload_form(p, TRUE, "Cat", "Animals", "uploads/1.jpg")
    \/ \E p \in Procs : upload_call(p)
    \/ \E p \in Procs : add_image_log(p)
    \/ \E p \in Procs : add_image_activity(p)
    \/ /\ MayRun(MaxFeedRuns)
       /\ \E p \in Procs : render_feed(p, None)
    \/ /\ MayRun(MaxFeedRuns)
       /\ \E p \in Procs, t \in {<<" ">>, <<" ", "c", "a", "t">>} :
            label_submit(p, None, 1, t, "en")
    \/ \E p \in Procs : label_call(p)
    \/ \E p \in Procs : add_label_log(p)
    \/ \E p \in Procs : add_label_activity(p)
    \/ images # {} /\ StorageFails
    \/ StorageRecovers

SpecFeed == Init /\ [][NextFeed]_vars

----------------------------------------------------------------------------
(* SpecCache: sessions register, log in, read the dashboard and the feed,   *)
(* upload and label, while time passes.                                     *)

NextCache ==
    \/ /\ MayRun(MaxCacheRuns)
       /\ \E p \in Procs, u \in {U_abc, U_a_dash} :
            register_submit(p, u, P_pqr, P_pqr, FormAge13)
    \/ \E p \in Procs : register_call(p)
    \/ \E p \in Procs : create_user_log(p)
    \/ /\ MayRun(MaxCacheRuns)
       /\ \E p \in Procs : login_submit(p, U_abc, P_pqr)
    \/ \E p \in Procs : login_call(p)
    \/ \E p \in Procs : authenticate_user_update(p)
    \/ \E p \in Procs : authenticate_user_log(p)
    \/ /\ MayRun(MaxCacheRuns)
       /\ \E p \in Procs, page \in {"upload", "dashboard"} : navigate(p, page)
    \/ /\ MayRun(MaxCacheRuns)
       /\ \E p \in Procs : logout(p)
    \/ /\ MayRun(MaxCacheRuns)
       /\ \E p \in Procs : render_dashboard(p)
    \/ /\ MayRun(MaxCacheRuns)
       /\ \E p \in Procs : upload_page(p, "No Location", "0.0", "0.0")
    \/ \E p \in Procs : upload_form(p, TRUE, "Cat", "Animals", "uploads/1.jpg")
    \/ \E p \in Procs : upload_call(p)
    \/ \E p \in Procs : add_image_log(p)
    \/ \E p \in Procs : add_image_activity(p)
    \/ /\ MayRun(MaxCacheRuns)
       /\ \E p \in Procs : render_feed(p, None)
    \/ /\ MayRun(MaxCacheRuns)
       /\ \E p \in Procs : label_submit(p, None, 1, <<"c", "a", "t">>, "en")
    \/ \E p \in Procs : label_call(p)
    \/ \E p \in Procs : add_label_log(p)
    \/ \E p \in Procs : add_label_activity(p)
    \/ users # {} /\ Elapse

SpecCache == Init /\ [][NextCache]_vars

----------------------------------------------------------------------------
(* SpecUpload: a session registers, logs in and uploads images with the     *)
(* location taken from its IP address, typed in, or left out.               *)

NextUpload ==
    \/ /\ MayRun(MaxUploadRuns)
       /\ \E p \in Procs : register_submit(p, U_abc, P_pqr, P_pqr, FormAge13)
    \/ \E p \in Procs : register_call(p)
    \/ \E p \in Procs : create_user_log(p)
    \/ /\ MayRun(MaxUploadRuns)
       /\ \E p \in Procs : login_submit(p, U_abc, P_pqr)
    \/ \E p \in Procs : login_call(p)
    \/ \E p \in Procs : authenticate_user_update(p)
    \/ \E p \in Procs : authenticate_user_log(p)
    \/ /\ MayRun(MaxUploadRuns)
       /\ \E p \in Procs : navigate(p, "upload")
    \/ /\ MayRun(MaxUploadRuns)
       /\ \E p \in Procs, m \in {"IP", "Manual", "No Location"}, lat \in {"0.0", "17.4"} :
            upload_page(p, m, lat, "0.0")
    \/ \E p \in Procs, o \in Outcomes : primary_request(p, o)
    \/ \E p \in Procs, o \in Outcomes : fallback_request(p, o)
    \/ \E p \in Procs, submitted \in BOOLEAN, t \in {"", "Cat"},
          f \in ArchivePaths \ files :
            upload_form(p, submitted, t, "Animals", f)
    \/ \E p \in Procs : upload_call(p)
    \/ \E p \in Procs : add_image_log(p)
    \/ \E p \in Procs : add_image_activity(p)

SpecUpload == Init /\ [][NextUpload]_vars

----------------------------------------------------------------------------
(* SpecFaults: every operation, over a database file that stops and starts  *)
(* being usable at any moment, between any two transactions.  A behaviour   *)
(* is followed up to its first query or export.                             *)

NextFaults ==
    \/ /\ NothingAsked /\ nCalls < MaxFaultCalls
       /\ \E p \in Procs : create_user(p, U_sp_abc, P_pqr, AgeAbsent)
    \/ NothingAsked /\ \E p \in Procs : create_user_log(p)
    \/ /\ NothingAsked /\ nCalls < MaxFaultCalls
       /\ \E p \in Procs : authenticate_user(p, U_abc, P_pqr)
    \/ NothingAsked /\ \E p \in Procs : authenticate_user_update(p)
    \/ NothingAsked /\ \E p \in Procs : authenticate_user_log(p)
    \/ /\ NothingAsked /\ nCalls < MaxFaultCalls
       /\ \E p \in Procs : add_image(p, "Cat", None, "Animals", "uploads/1.jpg", U_abc, NoKwargs)
    \/ NothingAsked /\ \E p \in Procs : add_image_log(p)
    \/ NothingAsked /\ \E p \in Procs : add_image_activity(p)
    \/ /\ NothingAsked /\ nCalls < MaxFaultCalls
       /\ \E p \in Procs, i \in ImageArgs : add_label(p, i, "cat", "en", U_abc)
    \/ NothingAsked /\ \E p \in Procs : add_label_log(p)
    \/ NothingAsked /\ \E p \in Procs : add_label_activity(p)
    \/ NothingAsked /\ \E i \in ImageArgs : get_image_labels(i)
    \/ NothingAsked /\ get_images(None, None, None, DefaultLimit)
    \/ NothingAsked /\ get_user_stats(U_abc)
    \/ NothingAsked /\ get_statistics
    \/ NothingAsked /\ get_category_statistics
    \/ NothingAsked /\ get_language_statistics
    \/ NothingAsked /\ get_activity_timeline(TimelineDays)
    \/ NothingAsked /\ export_to_excel
    \/ NothingAsked /\ create_images_zip
    \/ NothingAsked /\ StorageFails
    \/ NothingAsked /\ StorageRecovers

SpecFaults == Init /\ [][NextFaults]_vars

----------------------------------------------------------------------------
(* Claims checked under Spec *)

\* C1: after any interleaving of Register, AddImage and AddLabel calls, every
\* image row's stored label_count equals the number of label rows whose
\* image_id is that image's id.
C1_LabelCountIsLiveCount ==
    \A i \in images : i.label_count = Cardinality({l \in labels : l.image_id = i.id})

\* C1 witness: an image carries two labels, or one label that was re-added.
C1_Witness ==
    \E i \in images :
        \/ i.label_count = 2
        \/ i.label_count = 1 /\ \E l \in labels : l.image_id = i.id /\ l.id = 2

\* the labels table holds at most one row per (image_id, text, language)
KeyUnique ==
    \A a, b \in labels : SameKey(a, b) => a = b

\* the call that starts in this step (nCalls' = nCalls + 1): it either goes on
\* in its session or has returned at once
StartedCall ==
    IF pc' = pc THEN last'.args
    ELSE call'[CHOOSE p \in Procs : pc'[p] # pc[p]]

\* an AddLabel whose key already exists and whose INSERT commits (no NOT NULL
\* or foreign key error refuses it) replaces the row: afterwards the only row
\* of that key is a new one with the caller as contributor, and the image has
\* as many labels as before
ReplaceStep ==
    (nCalls' = nCalls + 1 /\ StartedCall.op = "add_label" /\ labelSeq' # labelSeq) =>
        LET c == StartedCall
            key(x) == x.image_id = c.image /\ x.text = c.text /\ x.language = c.language
        IN  (\E old \in labels : key(old))
            => /\ \E new \in labels' :
                    /\ key(new) /\ new.added_by = c.username /\ new \notin labels
                    /\ \A x \in labels' : key(x) => x = new
               /\ Cardinality({x \in labels' : x.image_id = c.image})
                    = Cardinality({x \in labels : x.image_id = c.image})

\* C2: the labels table never holds two rows with the same (image_id, text,
\* language); an AddLabel whose triple already exists replaces that row (the
\* row afterwards carries the new contributor) and leaves the number of
\* labels of the image unchanged.  (The AddLabel is one that stores its label:
\* a call refused by a constraint stores nothing.)
C2_UpsertReplaces == []KeyUnique /\ [][ReplaceStep]_vars

\* C2 witness: two label inserts were committed and one row is left, whose
\* contributor is not the one of the first insert.
C2_Witness ==
    /\ labelSeq = 2
    /\ \E l \in labels : labels = {l} /\ l.id = 2 /\ l.added_by = U_ghost
    /\ okLabels[U_abc] = 1

\* C3 (as claimed): every label row references an existing image and an
\* existing user, and every image row's uploader is an existing user.
C3_ReferencesExist ==
    /\ \A l \in labels :
            /\ \E i \in images : i.id = l.image_id
            /\ \E u \in users : u.username = l.added_by
    /\ \A i \in images : \E u \in users : u.username = i.uploaded_by

\* the sessions whose call stands at one of the labels ls, for user u or any
InFlight(ls) == {p \in Procs : pc[p] \in ls}
InFlightOf(ls, u) == {p \in Procs : pc[p] \in ls /\ call[p].username = u}

\* ids returned are pairwise different and each has its one row; the images
\* table has one row per AddImage that returned or has committed and is
\* about to return; get_statistics counts exactly the rows
ImagesAreReturnedIds ==
    /\ \A id \in BagToSet(returnedIds) :
            /\ CopiesIn(id, returnedIds) = 1
            /\ Cardinality({i \in images : i.id = id}) = 1
    /\ Cardinality(images) = BagCardinality(returnedIds)
            + Cardinality(InFlight({"add_image_log", "add_image_activity"}))
    /\ TotalImages(images) = Cardinality(images)
    /\ InFlight({"add_image_log", "add_image_activity"}) = {}
            => TotalImages(images) = BagCardinality(returnedIds)

\* a step adds at most one image row, and a new row has label_count 0
NewImageStep ==
    /\ images \subseteq images' \/ Cardinality(images') = Cardinality(images)
    /\ Cardinality(images') <= Cardinality(images) + 1
    /\ \A i \in images' : (\A j \in images : j.id # i.id) => i.label_count = 0

\* C9: every successful AddImage returns an id different from every id
\* returned before and adds exactly one image row with label_count 0, so
\* Statistics().total_images equals the number of rows of the images table,
\* which equals the number of AddImage calls that returned an id.
C9_ImagesCounted == []ImagesAreReturnedIds /\ [][NewImageStep]_vars

\* C9 witness: two AddImage calls returned, a third one failed in between.
C9_Witness ==
    /\ BagCardinality(returnedIds) = 2 /\ uuidSeq = 3
    /\ TotalImages(images) = 2
    /\ pc = [p \in Procs |-> "idle"]

UploadEvent(u) == [event_type |-> "image_uploaded", user_id |-> u]
LabelEvent(u) == [event_type |-> "label_added", user_id |-> u]
UploadActivity(u) == [user_id |-> u, activity_type |-> "image_upload", points_earned |-> 10]
LabelActivity(u) == [user_id |-> u, activity_type |-> "label_add", points_earned |-> 5]

\* C10: every AddImage that returns an id and every AddLabel that returns
\* true (one that replaces a label too) appends exactly one analytics event of
\* its type and exactly one activity record of 10 respectively 5 points, so a
\* user's total_points equals 10 times their successful AddImage calls plus 5
\* times their successful AddLabel calls.  (A call that has logged its event
\* and not yet returned is counted with the events.)
C10_PointsMatchCalls ==
    \A u \in Names :
        /\ TotalPoints(user_activities, u) = 10 * okImages[u] + 5 * okLabels[u]
        /\ CopiesIn(UploadActivity(u), user_activities) = okImages[u]
        /\ CopiesIn(LabelActivity(u), user_activities) = okLabels[u]
        /\ CopiesIn(UploadEvent(u), analytics)
                = okImages[u] + Cardinality(InFlightOf({"add_image_activity"}, u))
        /\ CopiesIn(LabelEvent(u), analytics)
                = okLabels[u] + Cardinality(InFlightOf({"add_label_activity"}, u))

\* C10 witness: one upload and two AddLabel calls of the same key by the same
\* user returned; the second replaced the first label, and the user has 20 points.
C10_Witness ==
    /\ okImages[U_abc] = 1 /\ okLabels[U_abc] = 2
    /\ labelSeq = 2 /\ Cardinality(labels) = 1
    /\ TotalPoints(user_activities, U_abc) = 20

\* every write of the labels table is the transaction of an AddLabel, and it
\* leaves exactly one row of the call's key, contributed by the caller and
\* stamped with the next id, and the image's label_count equal to the number
\* of its label rows
LabelWriteStep ==
    (labels' # labels \/ labelSeq' # labelSeq) =>
        /\ nCalls' = nCalls + 1 /\ StartedCall.op = "add_label"
        /\ labelSeq' = labelSeq + 1
        /\ LET c == StartedCall
               key(x) == x.image_id = c.image /\ x.text = c.text /\ x.language = c.language
           IN  /\ \E new \in labels' :
                    /\ key(new) /\ new.added_by = c.username /\ new.id = labelSeq'
                    /\ \A x \in labels' : key(x) => x = new
                    /\ \A x \in labels' \ {new} : x \in labels
               /\ \A i \in images' :
                    i.id = c.image =>
                        i.label_count = Cardinality({x \in labels' : x.image_id = i.id})

\* one row per key, and every label_count is the live count
OneRowPerKey ==
    /\ \A a, b \in labels : SameKey(a, b) => a = b
    /\ \A i \in images : i.label_count = Cardinality({l \in labels : l.image_id = i.id})

\* C20: when two AddLabel calls with the same (image, text, language) key and
\* different contributors run concurrently, in every interleaving the state
\* they leave holds exactly one label row for the key, its added_by is the
\* contributor whose write committed last, and the image's label_count
\* equals its live label count.  (The writes of the two calls are two steps;
\* the row after each is its caller's, so the row left is the later one's.)
C20_LastWriteWins == []OneRowPerKey /\ [][LabelWriteStep]_vars

\* C20 witness: two AddLabel calls of one key by different contributors are
\* in progress at once on an image that exists; the one row of the key is the
\* second call's, and the image counts one label.
C20_Witness ==
    /\ pc[1] \in {"add_label_log", "add_label_activity"}
    /\ pc[2] \in {"add_label_log", "add_label_activity"}
    /\ call[1].image = call[2].image /\ call[1].text = call[2].text
    /\ call[1].language = call[2].language
    /\ call[1].username # call[2].username
    /\ \E i \in images : i.id = call[1].image /\ i.label_count = 1
    /\ \E l \in labels : labels = {l} /\ l.id = 2 /\ l.added_by = call[2].username

\* a step removes no username and no image id, and lowers no label_count
NoRowRemovedStep ==
    /\ {u.username : u \in users} \subseteq {u.username : u \in users'}
    /\ {i.id : i \in images} \subseteq {i.id : i \in images'}
    /\ \A i \in images : \A j \in images' : j.id = i.id => j.label_count >= i.label_count

\* C23: no operation of the service ever removes a user row or an image row:
\* over any sequence of operations the set of usernames and the set of image
\* ids only grow, and the label_count of every image never decreases.
C23_NothingRemoved == [][NoRowRemovedStep]_vars

\* C23 witness: a label was added to one of two stored images, whose
\* label_count went up while the other image kept its row.
C23_Witness ==
    /\ Cardinality({i.id : i \in images}) = 2
    /\ \E i \in images : i.label_count = 1
    /\ \E i \in images : i.label_count = 0

\* an AddLabel that returns false has changed no table
FalseReturnStep ==
    (nCalls' = nCalls + 1 /\ StartedCall.op = "add_label" /\ pc' = pc /\ ~last'.ok) =>
        /\ labels' = labels
        /\ images' = images
        /\ analytics' = analytics
        /\ user_activities' = user_activities

FalseReturnOfStrStep ==
    (nCalls' = nCalls + 1 /\ StartedCall.op = "add_label" /\ pc' = pc /\ ~last'.ok) =>
        /\ StartedCall.text # IntText => labels' = labels /\ images' = images
        /\ analytics' = analytics
        /\ user_activities' = user_activities

FalseOfStrLeavesStateUnchanged == [][FalseReturnOfStrStep]_vars

----------------------------------------------------------------------------
(* Claims checked under SpecUsers *)

\* the Register call c is refused and changes no user row; its reason is
\* "already exists", in every case or (ifChecksPass) when it passes the checks
\* made before the INSERT
RegisterRefused(c, ifChecksPass) ==
    /\ users' = users
    /\ pc' = pc
    /\ ~last'.ok
    /\ (ifChecksPass => /\ Len(Strip(c.username)) >= 3
                        /\ Len(Strip(c.password)) >= 3
                        /\ c.age.kind # "none")
            => last'.reason = "Username already exists"

\* a Register that starts after a Register of the same name has returned
\* success is refused as existing
LaterRegisterStep ==
    (/\ nCalls' = nCalls + 1 /\ StartedCall.op = "create_user"
     /\ okRegs[Strip(StartedCall.username)] >= 1)
    => RegisterRefused(StartedCall, FALSE)

\* a Register that starts when a row of its name is stored (by a call that has
\* returned or is still running) is refused
TakenRegisterStep ==
    (/\ nCalls' = nCalls + 1 /\ StartedCall.op = "create_user"
     /\ \E r \in users : r.username = Strip(StartedCall.username))
    => RegisterRefused(StartedCall, TRUE)

\* at most one Register call succeeds per stored username, and the table
\* holds at most one row per username
OneSuccessPerName ==
    /\ \A n \in Names : okRegs[n] <= 1
    /\ \A a, b \in users : a.username = b.username => a = b

NoShortUsername == \A r \in users : Len(r.username) >= 3

\* C5 (as claimed): for every username of fewer than 3 characters (the empty
\* one included) and every password, Register fails with a reason that refers
\* to the username's length, and no user row is created.
C5_ShortUsernameLengthReason ==
    /\ NoShortUsername
    /\ (last.op = "create_user" /\ Len(last.args.username) < 3)
        => ~last.ok /\ last.reason = "Username must be at least 3 characters"

\* C5 (amended): for every username of fewer than 3 characters and every
\* password, Register fails and no user row is created; the reason refers to
\* the username's length when the stripped username and the stripped password
\* are both non-empty, and is "Username and password are required" otherwise.
C5_ShortUsernameFails ==
    /\ NoShortUsername
    /\ (last.op = "create_user" /\ Len(last.args.username) < 3)
        => /\ ~last.ok
           /\ last.reason =
                IF Strip(last.args.username) # <<>> /\ Strip(last.args.password) # <<>>
                THEN "Username must be at least 3 characters"
                ELSE "Username and password are required"

\* C5 witness: a two-character username with a non-empty password was refused.
C5_Witness ==
    /\ last.op = "create_user" /\ last.args.username = U_ab
    /\ last.args.password = P_xyz /\ last.reason = MsgUserLen

AllowedChar(c) == c \in {"a", "b", "c", "p", "q", "r", "x", "y", "z", "_", "-"}

\* C6: whenever Register returns success, the stored username is non-empty,
\* has at least 3 characters, all of them alphanumeric, '_' or '-', the
\* password has at least 3 characters, and the name was not present before
\* (this call's row is the only one of that name, and its only success); in
\* every other case Register returns failure with a non-empty reason and
\* never raises.
C6_RegisterSuccessImpliesValid ==
    last.op = "create_user" =>
        LET n == Strip(last.args.username)
            pw == Strip(last.args.password)
        IN  IF last.ok
            THEN /\ n # <<>> /\ Len(n) >= 3
                 /\ \A k \in 1..Len(n) : AllowedChar(n[k])
                 /\ Len(pw) >= 3
                 /\ Cardinality({r \in users : r.username = n}) = 1
                 /\ okRegs[n] = 1
            ELSE last.reason \notin {"", "raised"}

\* C6 witness: a Register with '_' and '-' in the name succeeded.
C6_Witness ==
    last.op = "create_user" /\ last.ok /\ last.args.username = U_a_dash

\* the conditions of a login, as the claim states them
HasLogin(username, password) ==
    \E r \in users : r.username = username /\ r.password = password /\ r.is_active

LoginEvent(username) == [event_type |-> "user_login", user_id |-> username]

\* what each step of Authenticate does, and that no other step does it
AuthStep ==
    /\ (nCalls' = nCalls + 1 /\ StartedCall.op = "authenticate_user") =>
            LET c == StartedCall
            IN  IF HasLogin(c.username, c.password)
                THEN pc' # pc
                ELSE /\ pc' = pc /\ ~last'.ok
                     /\ users' = users /\ analytics' = analytics
    /\ \A p \in Procs :
            (pc[p] = "authenticate_user_log" /\ pc'[p] = "idle") =>
                /\ last'.op = "authenticate_user" /\ last'.ok /\ last'.args = call[p]
                /\ HasLogin(call[p].username, call[p].password)
                /\ \E r \in users : r.username = call[p].username /\ r.last_login # NoTime
                /\ users' = users
                /\ analytics' = analytics (+) SetToBag({LoginEvent(call[p].username)})
    /\ (last' # last /\ last'.op = "authenticate_user" /\ last'.ok) =>
            \E p \in Procs : pc[p] = "authenticate_user_log" /\ pc'[p] = "idle"
    /\ \A n \in IF analytics' = analytics THEN {} ELSE Names :
            CopiesIn(LoginEvent(n), analytics') # CopiesIn(LoginEvent(n), analytics) =>
                \E p \in Procs : /\ pc[p] = "authenticate_user_log" /\ pc'[p] = "idle"
                                  /\ call[p].username = n
    /\ \A r \in users \ users' :
            \E p \in Procs :
                /\ pc[p] = "authenticate_user_update"
                /\ pc'[p] = "authenticate_user_log"
                /\ call[p].username = r.username
                /\ HasLogin(call[p].username, call[p].password)
                /\ users' = (users \ {r}) \cup {[r EXCEPT !.last_login = now]}

\* C7: Authenticate returns true if and only if a user row has exactly that
\* username, exactly that password and is_active true; exactly when it
\* returns true it sets the user's last_login and appends one user_login
\* event; when it returns false it changes no user row and appends no event.
C7_AuthenticateIffMatch == [][AuthStep]_vars

\* C7 witness: a login with the stored name and password returned true and
\* left its timestamp and its event.
C7_Witness ==
    /\ last.op = "authenticate_user" /\ last.ok
    /\ \E r \in users : r.username = last.args.username /\ r.last_login # NoTime
    /\ CopiesIn(LoginEvent(last.args.username), analytics) = 1

\* C8 (as claimed): once Register(u, p) has returned success, Authenticate(u, p)
\* with the same argument strings returns true, and Authenticate(u, q) returns
\* false for every q different from p.
C8_RegisterThenAuthenticate ==
    last.op = "authenticate_user" =>
        \A a \in regArgs :
            a[1] = last.args.username => (last.ok <=> a[2] = last.args.password)

\* the values the age field of the registration form submits: None when it
\* is left blank, else an int of at least 13
FormAge(age) == age.kind = "none" \/ (age.kind = "int" /\ age.value >= 13)

\* a Register that starts with well-formed arguments, a name that is not
\* stored and an age the form can submit inserts its row and goes on to
\* return success
ValidRegisterStep ==
    (/\ nCalls' = nCalls + 1 /\ StartedCall.op = "create_user"
     /\ FormAge(StartedCall.age)
     /\ LET n == Strip(StartedCall.username)
        IN  /\ Len(n) >= 3
            /\ \A k \in 1..Len(n) : AllowedChar(n[k])
            /\ ~\E r \in users : r.username = n
     /\ Len(Strip(StartedCall.password)) >= 3)
    => /\ pc' # pc
       /\ \E r \in users' \ users : r.username = Strip(StartedCall.username)

\* C24 (as claimed): Register succeeds whenever the trimmed username has at
\* least 3 characters, each a letter, a digit, '_' or '-', the trimmed
\* password has at least 3 characters and the username is not yet present,
\* for every combination of optional profile values the registration form
\* can submit (the age field left blank included).
C24_ValidRegisterSucceeds == [][ValidRegisterStep]_vars

\* what holds of Register: the same for a name with a letter or a digit in
\* it, when the age is an int
RegisterWithAgeStep ==
    (/\ nCalls' = nCalls + 1 /\ StartedCall.op = "create_user"
     /\ StartedCall.age.kind # "none"
     /\ LET n == Strip(StartedCall.username)
        IN  /\ Len(n) >= 3
            /\ \A k \in 1..Len(n) : AllowedChar(n[k])
            /\ \E k \in 1..Len(n) : IsAlnumChar(n[k])
            /\ ~\E r \in users : r.username = n
     /\ Len(Strip(StartedCall.password)) >= 3)
    => /\ pc' # pc
       /\ \E r \in users' \ users : r.username = Strip(StartedCall.username)

RegisterWithAgeSucceeds == [][RegisterWithAgeStep]_vars

----------------------------------------------------------------------------
(* Claims checked under SpecQueries *)

\* the rows a query returned, as a set
Returned == {result.value[k] : k \in 1..Len(result.value)}

\* C11 (as claimed): for every image id, GetLabels returns exactly the label
\* rows attached to that image, as many as the image's label_count and one
\* per (text, language) key, the more recently added row (the one with the
\* larger AUTOINCREMENT id) before the less recently added one.
C11_LabelsNewestFirst ==
    (result.op = "get_image_labels" /\ ~result.failed) =>
        LET v == result.value
            rows == {l \in labels : l.image_id = result.image}
        IN  /\ Returned = rows
            /\ Len(v) = Cardinality(rows)
            /\ \A i \in images : i.id = result.image => Len(v) = i.label_count
            /\ \A j, k \in 1..Len(v) : j # k => ~SameKey(v[j], v[k])
            /\ \A j, k \in 1..Len(v) : j < k => v[j].id > v[k].id

\* what holds of GetLabels: the same, with the rows in descending order of
\* their added_at values
LabelsByTimestamp ==
    (result.op = "get_image_labels" /\ ~result.failed) =>
        LET v == result.value
            rows == {l \in labels : l.image_id = result.image}
        IN  /\ Returned = rows
            /\ Len(v) = Cardinality(rows)
            /\ \A i \in images : i.id = result.image => Len(v) = i.label_count
            /\ \A j, k \in 1..Len(v) : j # k => ~SameKey(v[j], v[k])
            /\ \A j, k \in 1..Len(v) : j < k => v[j].added_at >= v[k].added_at

\* C12: every image returned by QueryImages called with a category filter has
\* exactly that category, and every image returned when a language filter is
\* supplied has at least one label in that language; every row returned is
\* an image of the table.
C12_FiltersAreSound ==
    (result.op = "get_images" /\ ~result.failed) =>
        \A r \in Returned :
            /\ r.image \in images
            /\ Truthy(result.category) => r.image.category = result.category
            /\ Truthy(result.language) =>
                    \E l \in labels : l.image_id = r.image.id /\ l.language = result.language

\* C12 witness: a query with both filters returned the one image it should,
\* while an image of another category was stored too.
C12_Witness ==
    /\ result.op = "get_images" /\ result.category = "Animals" /\ result.language = "hi"
    /\ Len(result.value) = 1
    /\ \E i \in images : i.category = "Food"

\* C13 (as claimed): for every image returned by QueryImages, whatever filters
\* were supplied, total_labels equals the number of labels attached to the
\* image (its label_count) and languages is the set of all languages among
\* the image's labels.
C13_RowsCarryAllLabels ==
    (result.op = "get_images" /\ ~result.failed) =>
        \A r \in Returned :
            /\ r.total_labels = r.image.label_count
            /\ r.total_labels = Cardinality({l \in labels : l.image_id = r.image.id})
            /\ r.languages = {l.language : l \in {x \in labels : x.image_id = r.image.id}}

\* s occurs in x as a substring
Contains(x, s) ==
    /\ x # None
    /\ \E k \in 0..(Len(Chars(x)) - Len(Chars(s))) :
            \A i \in 1..Len(Chars(s)) : Chars(x)[k + i] = Chars(s)[i]

\* the image satisfies each filter that was supplied
Satisfies(i, category, language, search) ==
    /\ Truthy(category) => i.category = category
    /\ Truthy(language) => \E l \in labels : l.image_id = i.id /\ l.language = language
    /\ Truthy(search) =>
            \/ Contains(i.title, search)
            \/ Contains(i.description, search)
            \/ \E l \in labels : l.image_id = i.id /\ Contains(l.text, search)

\* QueryImages returns each image once, in descending order of upload time,
\* and at most limit rows
OrderedAndCapped ==
    (result.op = "get_images" /\ ~result.failed) =>
        LET v == result.value
        IN  /\ \A j, k \in 1..Len(v) : j # k => v[j].image.id # v[k].image.id
            /\ \A j, k \in 1..Len(v) : j < k => v[j].image.uploaded_at >= v[k].image.uploaded_at
            /\ Len(v) <= result.limit

\* C14 (as claimed): QueryImages returns each image at most once, ordered by
\* upload time descending, and at most limit rows; when no more than limit
\* images satisfy all supplied filters (category equality, a label in the
\* language, the search text a substring of the title, the description or a
\* label text), every such image is returned.
C14_AllMatchesReturned ==
    /\ OrderedAndCapped
    /\ (result.op = "get_images" /\ ~result.failed) =>
            LET matching == {i \in images :
                                Satisfies(i, result.category, result.language, result.search)}
            IN  Cardinality(matching) <= result.limit
                    => matching \subseteq {r.image : r \in Returned}

----------------------------------------------------------------------------
(* Claims checked under SpecStats *)

\* C15: UserStatistics(u).user_rank is 1 plus the number of other users whose
\* summed activity points are strictly greater than u's (0 for a user without
\* activity); a user whom nobody exceeds has rank 1.  (A user is any name
\* that activity records are kept for.)
C15_RankCountsStrictlyGreater ==
    (result.op = "get_user_stats" /\ ~result.failed) =>
        LET u == result.username
            ahead == {n \in Names \ {u} :
                        TotalPoints(user_activities, n) > TotalPoints(user_activities, u)}
        IN  /\ result.value.total_points = TotalPoints(user_activities, u)
            /\ result.value.user_rank = 1 + Cardinality(ahead)
            /\ (\A n \in Names :
                    TotalPoints(user_activities, n) <= TotalPoints(user_activities, u))
                    => result.value.user_rank = 1

\* C15 witness: a user with 5 points is second behind a user with more, while
\* a third party has none.
C15_Witness ==
    /\ result.op = "get_user_stats"
    /\ result.value.total_points = 5 /\ result.value.user_rank = 2

----------------------------------------------------------------------------
(* Claims checked under SpecExport *)

\* the image rows whose file is on the disk
OnDisk == {i \in images : i.image_path \in files}

\* C17: the archive of ExportArchive has an entry for every image row whose
\* image_path exists on disk at export time (as many entries as such rows)
\* and none for a missing file; a missing file never makes the export fail
\* or return null.
C17_ArchiveHoldsExistingFiles ==
    result.op = "create_images_zip" =>
        /\ ~result.failed /\ ~result.value.null
        /\ LET entries == result.value.entries
           IN  /\ BagCardinality(entries) = Cardinality(OnDisk)
               /\ \A i \in OnDisk : \E e \in BagToSet(entries) : e.file = i.image_path
               /\ \A e \in BagToSet(entries) :
                    e.file \in files /\ \E i \in images : i.image_path = e.file

\* C17 witness: of two image rows one has lost its file; the archive holds
\* the one entry of the other.
C17_Witness ==
    /\ result.op = "create_images_zip"
    /\ Cardinality(images) = 2 /\ Cardinality(OnDisk) = 1
    /\ BagCardinality(result.value.entries) = 1

\* the part of an archive path in front of the file name
Folder(i) == Chars(i.category) \o <<"/">> \o i.uploaded_by \o <<"/">>

\* C18 (as claimed): every entry of the archive is stored under a path of the
\* form category/uploader/filename, and that path has at most 50 characters.
C18_PathAtMost50 ==
    result.op = "create_images_zip" =>
        \A e \in BagToSet(result.value.entries) :
            /\ \E i \in images :
                    /\ i.image_path = e.file
                    /\ Len(e.archive_path) > Len(Folder(i))
                    /\ SubSeq(e.archive_path, 1, Len(Folder(i))) = Folder(i)
            /\ Len(e.archive_path) <= 50

\* C18 (amended): every entry of the archive is stored under the path
\* category/uploader/filename, where filename is the image's title cut to its
\* first 50 characters, followed by the extension of the stored file; only
\* the title is cut, and the path as a whole can be longer.
C18_TitleAtMost50 ==
    result.op = "create_images_zip" =>
        \A e \in BagToSet(result.value.entries) :
            \E i \in images :
                LET path == e.archive_path
                    title == Chars(i.title)
                    n == IF Len(title) <= 50 THEN Len(title) ELSE 50
                    from == Len(Folder(i))
                    ext == SubSeq(path, from + n + 1, Len(path))
                    file == Chars(i.image_path)
                IN  /\ i.image_path = e.file
                    /\ Len(path) >= from + n
                    /\ SubSeq(path, 1, from) = Folder(i)
                    /\ SubSeq(path, from + 1, from + n) = SubSeq(title, 1, n)
                    /\ ext # <<>> =>
                            /\ ext[1] = "."
                            /\ ext = SubSeq(file, Len(file) - Len(ext) + 1, Len(file))
                            /\ \A k \in 2..Len(ext) : ext[k] \notin {".", "/"}
                    /\ ext = <<>> =>
                            \A k \in 2..Len(file) :
                                file[k] = "." => file[k - 1] \in {".", "/"}

\* C18 witness: the entry of an image with a title of 51 characters: 50 of
\* them are in the name, and the path has more than 50 characters.
C18_Witness ==
    /\ result.op = "create_images_zip"
    /\ \E e \in BagToSet(result.value.entries) :
            /\ Len(e.archive_path) = Len(Chars("Animals")) + 1 + Len(U_abc) + 1 + 50 + 4
            /\ e.file = "uploads/1.jpg"
    /\ \E i \in images : i.title = LongTitle /\ i.image_path = "uploads/1.jpg"

\* C19 (as claimed): ExportSpreadsheet returns null only when the export
\* failed, and otherwise a workbook with exactly the sheets Users, Images,
\* Labels and Statistics, in which the Users, Images and Labels sheets hold
\* one row per row of the users, images and labels tables, and the
\* Statistics sheet holds the values Statistics() returns.
C19_SheetsHoldAllRows ==
    result.op = "export_to_excel" =>
        IF result.value.null THEN result.failed
        ELSE LET sheets == result.value.sheets
             IN  /\ DOMAIN sheets = {"Users", "Images", "Labels", "Statistics"}
                 /\ Cardinality(sheets.Users) = Cardinality(users)
                 /\ Cardinality(sheets.Images) = Cardinality(images)
                 /\ Cardinality(sheets.Labels) = Cardinality(labels)
                 /\ sheets.Statistics = Statistics(users, images, labels, now)

----------------------------------------------------------------------------
(* Claims checked under SpecArchive *)

\* C29 (as claimed): in the archive of ExportArchive, two different image
\* rows whose files both exist are stored under two different entry paths,
\* so no image's entry shadows or overwrites another's (also when two images
\* share category, uploader, title and file extension).
C29_EntryPathsDiffer ==
    (result.op = "create_images_zip" /\ ~result.value.null) =>
        LET entries == result.value.entries
        IN  /\ \A e \in BagToSet(entries) : CopiesIn(e, entries) = 1
            /\ \A d, e \in BagToSet(entries) : d # e => d.archive_path # e.archive_path

\* what holds of ExportArchive: two image rows are stored under one entry
\* path exactly when they agree in category, uploader, the first 50
\* characters of the title and the extension of the file
SamePathIffSameParts ==
    (result.op = "create_images_zip" /\ ~result.value.null) =>
        \A i, j \in OnDisk :
            ArchivePath(i) = ArchivePath(j)
                <=> /\ i.category = j.category
                    /\ i.uploaded_by = j.uploaded_by
                    /\ Take(Chars(i.title), TitleLimit) = Take(Chars(j.title), TitleLimit)
                    /\ SplitExt(Chars(i.image_path)) = SplitExt(Chars(j.image_path))

----------------------------------------------------------------------------
(* Claims checked under SpecAggregates *)

\* the sum of the counts of a mapping from keys to counts
RECURSIVE SumOfCounts(_)
SumOfCounts(f) ==
    IF DOMAIN f = {} THEN 0
    ELSE LET k == CHOOSE x \in DOMAIN f : TRUE
         IN  f[k] + SumOfCounts([x \in DOMAIN f \ {k} |-> f[x]])

\* the aggregate that was asked, with what the other aggregates return in
\* the same state
AskedAggregates ==
    [statistics |-> IF result.op = "get_statistics" THEN result.value
                    ELSE Statistics(users, images, labels, now),
     categories |-> IF result.op = "get_category_statistics" THEN result.value
                    ELSE CategoryStatistics(images),
     languages |-> IF result.op = "get_language_statistics" THEN result.value
                   ELSE LanguageStatistics(labels)]

AggregateAsked ==
    /\ result.op \in {"get_statistics", "get_category_statistics", "get_language_statistics"}
    /\ ~result.failed

\* C30 (as claimed): at any instant without concurrent writes, the aggregate
\* queries agree with one another: the counts of CategoryStatistics sum to
\* Statistics().total_images, the counts of LanguageStatistics sum to
\* Statistics().total_labels, the number of languages in LanguageStatistics
\* equals Statistics().languages_used, and the sum of stored label_count
\* over all images equals total_labels.
C30_AggregatesAgree ==
    (AggregateAsked /\ Quiet) =>
        LET a == AskedAggregates
        IN  /\ SumOfCounts(a.categories) = a.statistics.total_images
            /\ SumOfCounts(a.languages) = a.statistics.total_labels
            /\ Cardinality(DOMAIN a.languages) = a.statistics.languages_used
            /\ SumLabelCounts(images) = a.statistics.total_labels

\* what holds of the aggregates: the first three agreements at every
\* instant, and the fourth when every label is attached to an image row
AggregatesOfAttachedLabels ==
    AggregateAsked =>
        LET a == AskedAggregates
        IN  /\ SumOfCounts(a.categories) = a.statistics.total_images
            /\ SumOfCounts(a.languages) = a.statistics.total_labels
            /\ Cardinality(DOMAIN a.languages) = a.statistics.languages_used
            /\ (\A l \in labels : \E i \in images : i.id = l.image_id)
                    => SumLabelCounts(images) = a.statistics.total_labels

----------------------------------------------------------------------------
(* Claims checked under SpecSession *)

\* a call of one of the operations ops begins in session p in this step
CallBegins(p, ops) ==
    /\ pc[p] = "idle"
    /\ nCalls' = nCalls + 1
    /\ \/ pc'[p] # "idle" /\ call'[p].op \in ops
       \/ pc' = pc /\ run[p] # NoRun /\ run'[p] = NoRun /\ last'.op \in ops

\* session p is authenticated as a stored user
KnownUser(s, usrs) ==
    Authenticated(s) => Has(s, "user") /\ \E u \in usrs : u.username = s.user

SessionStep(p) ==
    \* a page is put on the screen only in an authenticated session
    /\ (shown'[p] # shown[p] /\ shown'[p].page \in Pages) => Authenticated(session[p])
    \* a run of a session that is not authenticated shows the authentication page
    /\ (shown'[p] # shown[p] /\ ~Authenticated(session[p])) => shown'[p].page = "auth"
    \* AddImage and AddLabel begin only in an authenticated session
    /\ CallBegins(p, {"add_image", "add_label"}) => Authenticated(session[p])
    \* the flag becomes true when authenticate_user returns True to the session,
    \* and the user is the username of that call, which matches a stored row
    /\ (~Authenticated(session[p]) /\ Authenticated(session'[p])) =>
            /\ pc[p] = "authenticate_user_log" /\ pc'[p] = "idle"
            /\ last'.op = "authenticate_user" /\ last'.ok
            /\ session'[p].user = call[p].username
            /\ MatchUser(users', call[p].username, call[p].password) # {}
    \* while it is true the user stays the same
    /\ (Authenticated(session[p]) /\ Authenticated(session'[p])) =>
            session'[p].user = session[p].user
    /\ KnownUser(session'[p], users')
    \* it becomes false at logout only, which leaves no key of the session state
    /\ (Authenticated(session[p]) /\ ~Authenticated(session'[p])) =>
            /\ session'[p] = EmptySession
            /\ cache' = EmptyCache

\* C27: in every session the five pages are rendered, and AddImage and
\* AddLabel are invoked, only while the authenticated flag is true; the flag
\* is true only from a successful Authenticate of that session to its next
\* logout, with session.user the authenticated username all the while; logout
\* clears the whole session state, and a session that is not authenticated is
\* shown the authentication page only
C27_PagesOnlyWhileAuthenticated == [][\A p \in Procs : SessionStep(p)]_vars

\* a session logged in as 'abc', uploaded an image through the upload page
\* and has logged out
C27_Witness ==
    /\ \E i \in images : i.uploaded_by = U_abc
    /\ \E p \in Procs : session[p] = EmptySession /\ shown[p].page = "sidebar"

----------------------------------------------------------------------------
(* Claims checked under SpecFeed *)

\* the add_label call of the label form of session p returns in this step
LabelFormReturns(p) == run[p].handler = "label" /\ run'[p] = NoRun

LabelMessageStep(p) ==
    LabelFormReturns(p) =>
        /\ shown'[p].message = "Label added successfully!" => last'.ok
        /\ ~last'.ok => shown'[p].message = "Error adding label"

\* C26: the label form shows "Label added successfully!" only when add_label
\* returned True, and shows an error when it returned False
C26_SuccessOnlyWhenStored == [][\A p \in Procs : LabelMessageStep(p)]_vars

\* the form shows the success message, clears the cache and runs the script
\* again whatever add_label returned
LabelMessageWhateverReturned ==
    [][\A p \in Procs :
        LabelFormReturns(p) =>
            /\ shown'[p].message = "Label added successfully!"
            /\ shown'[p].rerun
            /\ cache' = EmptyCache]_vars

----------------------------------------------------------------------------
(* Claims checked under SpecCache *)

\* what the cached functions returned to session p in this step: a run
\* reads them when it starts, before any call of a writing operation
ReadNow(p) ==
    IF run[p] # NoRun THEN NothingServed
    ELSE IF run'[p] # NoRun /\ run'[p].handler = "label" THEN run'[p].served
    ELSE IF shown'[p] # shown[p] THEN shown'[p].served
    ELSE NothingServed

ServedNow(p) ==
    {e \in {ReadNow(p).stats, ReadNow(p).user_stats, ReadNow(p).images} : ~e.null}

\* no entry is served CACHE_TTL seconds or more after it was computed
ServedWithinTTLStep(p) ==
    \A e \in ServedNow(p) : e.at <= clock /\ clock - e.at < CACHE_TTL

\* a handler of session p that writes through the service completes in this
\* step: a registration or an upload that succeeded, or a label submission
WriteCompletes(p, handlers) ==
    /\ run[p].handler \in handlers
    /\ run'[p] = NoRun
    /\ run[p].handler \in {"register", "upload"} => last'.ok

\* the statistics a dashboard read serves count every user whose registration
\* has completed and every image whose upload has completed
StatsCountCompletedWrites(p, fields) ==
    LET e == ReadNow(p).stats
    IN  (~e.null /\ e.value # <<>>) =>
            /\ "users" \in fields => e.value.total_users >= SumOfCounts(okRegs)
            /\ "images" \in fields => e.value.total_images >= SumOfCounts(okImages)

\* C21: a cached statistics or image-query result is never served more than
\* 300 seconds after it was computed, and the cache is emptied when a
\* registration, an upload or a label submission completes, so that the next
\* dashboard or feed read is computed from storage after that write
C21_CacheFreshAfterWrites ==
    [][\A p \in Procs :
        /\ ServedWithinTTLStep(p)
        /\ WriteCompletes(p, {"register", "upload", "label"}) => cache' = EmptyCache
        /\ StatsCountCompletedWrites(p, {"users", "images"})]_vars

\* the same without registration: entries are served for less than 300
\* seconds, an upload and a label submission empty the cache, and the
\* statistics served count every completed upload
CacheFreshAfterUploadAndLabel ==
    [][\A p \in Procs :
        /\ ServedWithinTTLStep(p)
        /\ WriteCompletes(p, {"upload", "label"}) => cache' = EmptyCache
        /\ StatsCountCompletedWrites(p, {"images"})]_vars

\* a registration leaves the cache as it is
RegistrationKeepsCache ==
    [][\A p \in Procs : WriteCompletes(p, {"register"}) => cache' = cache]_vars

\* an entry computed CACHE_TTL - 1 seconds ago has been served
OldEntryServed ==
    \E p \in Procs : ~shown[p].served.stats.null
                      /\ shown[p].served.stats.at = clock - (CACHE_TTL - 1)

----------------------------------------------------------------------------
(* Claims checked under SpecUpload *)

\* the requests of one get_ip_location: the primary service first and once,
\* then the fallback service once, and only after a primary request that gave
\* no location; the value returned is the location of the request that gave
\* one, and no location after two requests that gave none
LookupInOrder(l) ==
    LET n == Len(l.requests)
    IN  /\ n <= 2
        /\ n >= 1 => l.requests[1].service = "primary"
        /\ n = 2 => /\ l.requests[2].service = "fallback"
                    /\ ~YieldsLocation(l.requests[1].outcome)
        /\ l.returned =>
                /\ n >= 1
                /\ IF YieldsLocation(l.requests[n].outcome)
                   THEN l.value = LocationOf(l.requests[n].outcome)
                   ELSE n = 2 /\ l.value = NoLocation

\* session p is inside the add_image call of an upload whose IP lookup
\* returned no location
UploadsWithoutLocation(p) ==
    /\ pc[p] # "idle"
    /\ run[p].handler = "upload"
    /\ run[p].method = "IP"
    /\ lookup[p].returned /\ lookup[p].value = NoLocation

\* C22: one get_ip_location sends at most one request to the primary service
\* and then at most one to the fallback service, the second only when the
\* first gave no coordinates, and none twice; when both fail it returns no
\* location, and the upload calls add_image with latitude and longitude None
C22_OnePrimaryThenOneFallback ==
    \A p \in Procs :
        /\ LookupInOrder(lookup[p])
        /\ UploadsWithoutLocation(p) =>
                /\ call[p].op = "add_image"
                /\ call[p].kwargs.latitude = None
                /\ call[p].kwargs.longitude = None

\* the primary request timed out, the fallback gave no coordinates, and the
\* image row of the upload is stored without a latitude
C22_Witness ==
    \E p \in Procs :
        /\ UploadsWithoutLocation(p)
        /\ Len(lookup[p].requests) = 2
        /\ lookup[p].requests[1].outcome.raises = "Timeout"
        /\ pc[p] = "add_image_log"
        /\ \E i \in images : i.id = call[p].image /\ i.latitude = None

\* the image row of the upload in progress in session p
UploadedRow(p) == CHOOSE i \in images : i.id = call[p].image

\* session p is inside an upload with location data, its row stored
UploadsWithLocation(p) ==
    /\ run[p].handler = "upload"
    /\ pc[p] \in {"add_image_log", "add_image_activity"}
    /\ ~run[p].location.null

\* C28: an image uploaded with location data has every field of it on its
\* row: latitude, longitude, city, country and method
C28_LocationFieldsStored ==
    \A p \in Procs :
        UploadsWithLocation(p) =>
            /\ UploadedRow(p).latitude = run[p].location.latitude
            /\ UploadedRow(p).longitude = run[p].location.longitude
            /\ UploadedRow(p).city = run[p].location.city
            /\ UploadedRow(p).country = run[p].location.country
            /\ UploadedRow(p).location_method = run[p].location.method

\* the row has the latitude and the longitude of the location data, and NULL
\* for city, country and location_method
CoordinatesStoredOnly ==
    \A p \in Procs :
        UploadsWithLocation(p) =>
            /\ UploadedRow(p).latitude = run[p].location.latitude
            /\ UploadedRow(p).longitude = run[p].location.longitude
            /\ UploadedRow(p).city = None
            /\ UploadedRow(p).country = None
            /\ UploadedRow(p).location_method = None

\* an upload with the location of the IP lookup, city and country known
LocatedUpload ==
    \E p \in Procs : UploadsWithLocation(p) /\ run[p].location.city = "Hyderabad"
                      /\ run[p].location.method = "IP"

----------------------------------------------------------------------------
(* Claims checked under SpecFaults *)

\* no operation but AddImage ever raises, and a query or an export whose
\* storage operation failed has returned its default: an empty sequence or
\* mapping, null for the exports
DefaultsReturned ==
    /\ last.reason = "raised" => last.op = "add_image"
    /\ (result.op # "none" /\ result.failed) =>
            IF result.op \in {"export_to_excel", "create_images_zip"}
            THEN result.value.null
            ELSE result.value = <<>>

\* a call that starts while the database cannot be used returns at once and
\* stores nothing: Register a false/reason pair, Authenticate and AddLabel
\* false, and AddImage raises and returns no id; an Authenticate that loses
\* the database before its UPDATE returns false
FailedCallStep ==
    /\ (faulty /\ nCalls' = nCalls + 1) =>
            /\ pc' = pc /\ db' = db /\ ~last'.ok
            /\ last'.op = StartedCall.op /\ last'.id = GhostImage
            /\ last'.op = "create_user" => last'.reason \notin {"", "raised"}
            /\ last'.op \in {"authenticate_user", "add_label"} => last'.reason = ""
            /\ last'.op = "add_image" => last'.reason = "raised"
    /\ \A p \in Procs :
            (faulty /\ pc[p] = "authenticate_user_update" /\ pc'[p] # pc[p]) =>
                /\ pc'[p] = "idle" /\ db' = db
                /\ ~last'.ok /\ last'.reason = "" /\ last'.args = call[p]

\* C16: when the underlying storage operation fails, every operation returns
\* its safe default without raising (Register a false/reason pair,
\* Authenticate false, AddLabel false, QueryImages, GetLabels and
\* ActivityTimeline an empty sequence, the statistics operations an empty
\* mapping, the exports null), except AddImage, which raises the error and
\* returns no id.
C16_FailuresGiveDefaults == []DefaultsReturned /\ [][FailedCallStep]_vars

\* C16 witness: with the database unusable an AddImage has raised, and the
\* QueryImages after it has returned the empty sequence.
C16_Witness ==
    /\ faulty
    /\ last.op = "add_image" /\ last.reason = "raised" /\ images = {}
    /\ result.op = "get_images" /\ result.failed /\ result.value = <<>>

====
